---------------------------- MODULE Spec2Model ----------------------------
(***************************************************************************)
(* State-machine model of the chrome-gemini-sync native host (the relay):  *)
(*   - BrowserBridge   : request/response correlation (pending table)      *)
(*   - SocketServer    : Unix socket accept loop and per-client handlers   *)
(*   - main loop       : framed stdin reader dispatching browser:response  *)
(*   - PTYManager      : pseudo-terminal session, output queue, tasks      *)
(* Every goroutine is a process with a program counter; one action is one  *)
(* atomic step of the code (a critical section, a channel operation, a     *)
(* write) so that the interleavings of the Go program are the behaviours.  *)
(***************************************************************************)
EXTENDS Integers, Sequences, FiniteSets, TLC

(***************************************************************************)
(* Bounds of the model                                                     *)
(***************************************************************************)
\* BrowserBridge.Request calls made in one behaviour (over all connections)
MaxCalls == 2
\* browser:response frames the browser sends in one behaviour
MaxFrames == 2
\* the same two, where the socket's own life cycle is explored as well
MaxSockCalls == 2
MaxSockFrames == 1
\* chunks the child process writes to the pseudo-terminal in one behaviour
MaxChunks == 102
\* Start calls that launch a process, and chunks, where every sequence of
\* calls on the PTYManager is explored
MaxStarts == 2
MaxApiChunks == 1
\* Stop calls counted since the last launch (further ones are not told apart)
MaxStops == 2
\* sessions launched in the behaviours that repeat Stop
MaxStopStarts == 1
\* lines the Tool Facade gets on its standard input in one behaviour
MaxMcpLines == 2
\* frames put on the byte stream of the codec in one behaviour
MaxWireFrames == 2
\* frames arriving at the main loop in one behaviour
MaxInFrames == 3
\* length of the longest run of letters in a page title
MaxTitleRun == 51
\* calls and frames where the hand-off of responses is examined
MaxHandCalls == 1
MaxHandFrames == 2
\* calls and frames where the extent of the critical sections is examined
MaxLockCalls == 2
MaxLockFrames == 1
\* lines read by the Tool Facade where the tool table is examined
MaxToolLines == 2
\* calls, frames and lines waiting on a connection where the order of the
\* response lines is examined
MaxSeqCalls == 2
MaxSeqFrames == 1
MaxQueued == 2

\* The socket clients: two connections, named in the order they dial.
Conns == {1, 2}
Calls == 1..MaxCalls
Sess == 1..MaxStarts

\* make(chan string, 100)
OutputChCap == 100
\* maxRetries := 10
MaxRetries == 10

(***************************************************************************)
(* Request identifiers.  The identifier a client supplies is ClientId; the *)
(* empty string is EmptyId; uuid.New() for call n is <<"uuid", n>>, fresh  *)
(* for every call; UnknownId is an identifier no request ever had.         *)
(***************************************************************************)
EmptyId == <<"empty", 0>>
UnknownId == <<"unknown", 0>>
ClientId == <<"client", 1>>
NewUuid(n) == <<"uuid", n>>

\* The channel a failed map lookup yields (ok = false).
NoChan == 0
\* A sync.Mutex: <<>> when free, <<holder>> while held.
Unlocked == <<>>

VARIABLES
  \* BrowserBridge
  pending,      \* b.pending: requestId -> channel (the channel of call n is n)
  respChan,     \* contents of the channel of each call in progress (capacity 1)
  mutex,        \* b.mutex
  \* the Request calls
  nextCall,     \* serial of the next Request call
  callReqId,    \* requestId of call n (after the uuid default)
  callResult,   \* what the call in progress is returning
  recvCount,    \* messages the call in progress has received from its channel
  delivered,    \* frames HandleResponse has sent to the channel of the call in progress
  \* SocketServer
  listener,     \* s.listener: "nil" or "open"
  running,      \* s.running
  clients,      \* s.clients
  acceptPc,     \* position of SocketServer.Start
  connState,    \* per connection: "none", "queued", "open", "closed"
  connEof,      \* the client closed its end
  connIn,       \* lines sent by the client, not yet read by the handler
  connOut,      \* the last response line written to the client
  hPc,          \* position of handleClient(conn)
  cur,          \* the Request call the handler is in (0: none)
  \* framed channel
  stdoutReq,    \* parts of browser:request frames written to os.Stdout
  stdoutTerm,   \* terminal:output frames written to os.Stdout, in order
  stdin,        \* frames sent by the browser, not yet read
  framesIn,     \* number of frames the browser has sent
  mainPc,       \* position of the main loop
  mainChan,     \* respChan local of HandleResponse
  mainMsg,      \* msg parameter of HandleResponse
  \* PTYManager
  cmd,          \* p.cmd: the session whose process it holds (0: nil or never started)
  ptmx,         \* p.ptmx: the session whose pseudo-terminal file it is (0: nil)
  ptyRunning,   \* p.running
  ptyMutex,     \* p.mutex
  outputCh,     \* p.outputCh
  outputChOpen, \* p.outputCh has not been closed
  closeChan,    \* p.closeChan: "open" or "closed"
  \* the sessions launched by Start (pty.Start succeeded), numbered 1, 2, ...
  sessions,     \* how many
  program,      \* what session g runs: "gemini" or "shell"
  ptmxOpen,     \* the file of session g is not closed
  procAlive,    \* the child process of session g lives
  readerPc,     \* position of readOutput of session g
  waitPc,       \* position of the process-wait task of session g
  panicked,     \* a goroutine panicked: the process is gone
  chunksRead,   \* chunks read from the pseudo-terminal so far (chunk k is the k-th)
  drainPc,      \* position of the task that drains OutputChan()
  output,       \* its loop variable
  \* what the callers of the PTYManager saw
  lastStart,    \* result of the last Start
  lastOp,       \* the last Write or Resize
  stopCalled,   \* Stop has been invoked
  stopSession,  \* how many sessions had been launched at the last Stop
  stopCalls,    \* Stop calls since the last launch, up to MaxStops
  \* the relay process
  socketFile,   \* the socket file exists
  sockStopPc,   \* position of a SocketServer.Stop call ("idle": none in progress)
  socketStops,  \* SocketServer.Stop calls that returned, up to MaxStops
  sigPc,        \* position of the signal-handling task
  exited,       \* how the process exited ("no": it runs)
  \* the Tool Facade (the process started with --mcp-mode)
  mcpConn,      \* s.conn: "nil" or "open"
  dialAttempts, \* net.Dial calls made by connect
  connectResult,\* what connect returned: "none" (it runs), "ok", "err"
  mcpPc,        \* position of Run
  mcpIn,        \* the lines given to standard input so far
  mcpOut,       \* the lines written to standard output
  sockW,        \* request lines written to the socket
  sockR,        \* reads of a response line that returned (a line or an error)
  sockBuf,      \* the response line of the relay waiting to be read ("none")
  \* the framed channel codec on one byte stream
  wire,         \* the bytes written and not yet read
  wireClosed,   \* the writing end is closed
  wireClean,    \* only whole frames of WriteNativeMessage were put on the stream
  wireSent,     \* the messages WriteNativeMessage has written, in order
  wireGot,      \* what the calls of ReadNativeMessage returned, in order
  lastEnc,      \* frames put so far; payload size and error of the last WriteNativeMessage
  lastDec,      \* calls of ReadNativeMessage so far; body bytes read and buffer allocated by the last
  \* the main loop of the relay as a dispatcher of inbound frames
  frameLog,     \* the frames that arrived on standard input, in order
  inRead,       \* how many of them the loop has read
  loopPc,       \* "read", "call" (inside the call it dispatched to), "ended"
  performed,    \* the calls the loop has made, in order
  \* the file handleSavePageToFile writes
  saveArgs,     \* the last call: title of the page, format, filename, time
  savePath,     \* the file path it computed
  sockReqs,     \* the request lines the Tool Facade has written on its socket
  connLog,      \* per connection: request lines sent, calls made and response
                \* lines written, in order
  stdoutStream, \* what was written to os.Stdout, write by write
  \* the socket connection between the Tool Facade and the relay
  sockLines,    \* the response lines the relay wrote that were not read yet
  relayRead,    \* how many request lines of the facade the relay has handled
  mcpReads,     \* per response line read: the call that read it, its requestId
  \* the background worker of the browser extension
  port,         \* the variable port: null (0) or the port object it refers to
  livePorts,    \* the ports opened by connectNative that are still connected
  timers,       \* the pending setTimeout(connectToNativeHost, 2000) timers
  portsOpened,  \* how many ports connectNative has opened
  loaded        \* the worker's script has run its top-level connectToNativeHost()

bridgeVars == <<pending, respChan, mutex>>
callVars == <<nextCall, callReqId, callResult, recvCount, delivered>>
serverVars == <<listener, running, clients, acceptPc>>
connVars == <<connState, connEof, connIn, connOut>>
handlerVars == <<hPc, cur>>
ioVars == <<stdoutReq, stdin, framesIn>>
mainVars == <<mainPc, mainChan, mainMsg>>
relayVars == <<bridgeVars, callVars, serverVars, connVars, handlerVars, ioVars, mainVars>>

ptyFields == <<cmd, ptmx, ptyRunning, ptyMutex, closeChan>>
sessionVars == <<sessions, program, ptmxOpen, procAlive, readerPc, waitPc, panicked>>
outputVars == <<outputCh, outputChOpen, chunksRead, drainPc, output, stdoutTerm>>
callerVars == <<lastStart, lastOp, stopCalled, stopSession, stopCalls>>
ptyVars == <<ptyFields, sessionVars, outputVars, callerVars>>

procVars == <<socketFile, sockStopPc, socketStops, sigPc, exited>>
mcpVars == <<mcpConn, dialAttempts, connectResult, mcpPc, mcpIn, mcpOut, sockW, sockR, sockBuf>>
codecVars == <<wire, wireClosed, wireClean, wireSent, wireGot, lastEnc, lastDec>>
loopVars == <<frameLog, inRead, loopPc, performed>>
saveVars == <<saveArgs, savePath>>
toolVars == <<sockReqs>>
orderVars == <<connLog>>
streamVars == <<stdoutStream>>
pairVars == <<sockLines, relayRead, mcpReads>>
portVars == <<port, livePorts, timers, portsOpened, loaded>>
afterPairVars == <<portVars>>
afterStreamVars == <<pairVars, afterPairVars>>
afterOrderVars == <<streamVars, afterStreamVars>>
afterToolVars == <<orderVars, afterOrderVars>>
afterSaveVars == <<toolVars, afterToolVars>>
afterLoopVars == <<saveVars, afterSaveVars>>
afterCodecVars == <<loopVars, afterLoopVars>>
afterMcpVars == <<codecVars, afterCodecVars>>
afterProcVars == <<mcpVars, afterMcpVars>>
extVars == <<procVars, afterProcVars>>

vars == <<relayVars, ptyVars, extVars>>

NoMsg == [requestId |-> UnknownId, answers |-> 0, seq |-> 0, success |-> FALSE]
NoResult == [kind |-> "none", msg |-> NoMsg, err |-> ""]
RespResult(m) == [kind |-> "resp", msg |-> m, err |-> ""]
ErrResult(e) == [kind |-> "err", msg |-> NoMsg, err |-> e]
NoLine == [call |-> 0, requestId |-> EmptyId, success |-> FALSE, seq |-> 0, err |-> ""]

(***************************************************************************)
(* BrowserBridge                                                           *)
(***************************************************************************)

\* A faulty order, against which the ordering property is tested: the frame
\* is written first and the channel registered afterwards.
RequestWriteFirstPc(pc) ==
  CASE pc = "start" -> "write_len"
    [] pc = "write_len" -> "write_body"
    [] pc = "write_body" -> "register"
    [] pc = "register" -> "wait"
    [] OTHER -> "cleanup"

\* Control flow of Request: register the channel, write the frame (length
\* prefix, then body), wait; every return runs the deferred delete.
RequestNextPc(pc) ==
  CASE pc = "start" -> "register"
    [] pc = "register" -> "write_len"
    [] pc = "write_len" -> "write_body"
    [] pc = "write_body" -> "wait"
    [] OTHER -> "cleanup"

\* requestId == "" is replaced by a fresh uuid
RequestIdOf(supplied, n) == IF supplied = EmptyId THEN NewUuid(n) ELSE supplied

\* b.pending[requestId] = respChan
PendingInsert(tbl, id, ch) ==
  [k \in DOMAIN tbl \cup {id} |-> IF k = id THEN ch ELSE tbl[k]]

\* A faulty cleanup, against which the absence of leaks is tested: the entry
\* stays in the table.
PendingKeep(tbl, id) == tbl

\* delete(b.pending, requestId)
PendingDelete(tbl, id) == [k \in DOMAIN tbl \ {id} |-> tbl[k]]

\* A faulty lookup, against which correlation is tested: any pending channel
\* is taken, whatever the identifier.
PendingLookupAny(tbl, id) ==
  IF DOMAIN tbl # {} THEN tbl[CHOOSE k \in DOMAIN tbl : TRUE] ELSE NoChan

\* respChan, ok := b.pending[requestId]
PendingLookup(tbl, id) == IF id \in DOMAIN tbl THEN tbl[id] ELSE NoChan

\* A faulty critical section, against which isolation is tested: the lock
\* stays with the call after the insert.
RegisterKeepsLock(n) == <<n>>

\* b.mutex.Unlock() right after the insert
RegisterUnlock(n) == Unlocked

\* A faulty send, against which first-write-wins is tested: the slot is
\* overwritten.
ChanOverwrite(buf, m) == <<m>>

\* select { case respChan <- &msg: ... default: ... } on a channel of capacity 1
ChanTrySend(buf, m) == IF Len(buf) < 1 THEN Append(buf, m) ELSE buf

\* the calls in progress: a channel is reachable only while its call is
InProgress == {cur[c] : c \in Conns} \ {0}

\* Request, step 1: make the channel and insert it under the lock
RequestRegister(c) ==
  LET n == cur[c] IN
  /\ hPc[c] = "register"
  /\ mutex = Unlocked
  /\ respChan' = [respChan EXCEPT ![n] = <<>>]
  /\ pending' = PendingInsert(pending, callReqId[n], n)
  /\ mutex' = RegisterUnlock(n)
  /\ hPc' = [hPc EXCEPT ![c] = RequestNextPc("register")]
  /\ UNCHANGED <<callVars, serverVars, connVars, cur, ioVars, mainVars, ptyVars, extVars>>

\* Request, step 2: WriteNativeMessage(os.Stdout, req), the length prefix and
\* then the body; marshalling, the size check or either write may fail, and
\* Request then returns the error (the deferred delete still runs).
WriteFrame(c, ok) ==
  LET n == cur[c] IN
  /\ hPc[c] \in {"write_len", "write_body"}
  /\ IF ok
       THEN /\ stdoutReq' = stdoutReq \cup {[call |-> n, part |-> hPc[c]]}
            /\ hPc' = [hPc EXCEPT ![c] = RequestNextPc(hPc[c])]
            /\ UNCHANGED callResult
       ELSE /\ callResult' = [callResult EXCEPT ![n] = ErrResult("send")]
            /\ hPc' = [hPc EXCEPT ![c] = "cleanup"]
            /\ UNCHANGED stdoutReq
  /\ UNCHANGED <<bridgeVars, nextCall, callReqId, recvCount, delivered,
                 serverVars, connVars, cur, stdin, framesIn, mainVars, ptyVars>>

RequestWrite(c, ok) == WriteFrame(c, ok) /\ UNCHANGED extVars

\* Request, step 3, case resp := <-respChan
RequestRecv(c) ==
  LET n == cur[c] IN
  /\ hPc[c] = "wait"
  /\ respChan[n] # <<>>
  /\ callResult' = [callResult EXCEPT ![n] = RespResult(Head(respChan[n]))]
  /\ respChan' = [respChan EXCEPT ![n] = Tail(respChan[n])]
  /\ recvCount' = [recvCount EXCEPT ![n] = @ + 1]
  /\ hPc' = [hPc EXCEPT ![c] = RequestNextPc("wait")]
  /\ UNCHANGED <<pending, mutex, nextCall, callReqId, delivered,
                 serverVars, connVars, cur, ioVars, mainVars, ptyVars, extVars>>

\* Request, step 3, case <-time.After(RequestTimeout): the timer may fire in
\* any state in which the call waits, also when a response is in the channel
\* (select picks among the ready cases).
RequestTimeoutFires(c) ==
  LET n == cur[c] IN
  /\ hPc[c] = "wait"
  /\ callResult' = [callResult EXCEPT ![n] = ErrResult("timeout")]
  /\ hPc' = [hPc EXCEPT ![c] = RequestNextPc("wait")]
  /\ UNCHANGED <<bridgeVars, nextCall, callReqId, recvCount, delivered,
                 serverVars, connVars, cur, ioVars, mainVars, ptyVars, extVars>>

\* Request, the deferred function: delete(b.pending, requestId) under the lock
RequestCleanup(c) ==
  LET n == cur[c] IN
  /\ hPc[c] = "cleanup"
  /\ mutex = Unlocked
  /\ pending' = PendingDelete(pending, callReqId[n])
  /\ hPc' = [hPc EXCEPT ![c] = "respond"]
  /\ UNCHANGED <<respChan, mutex, callVars, serverVars, connVars, cur, ioVars, mainVars, ptyVars, extVars>>

(***************************************************************************)
(* Main loop: ReadNativeMessage(os.Stdin) and the browser:response case,   *)
(* bridge.HandleResponse(reqID, *msg).                                     *)
(***************************************************************************)

\* A faulty lookup, against which the extent of the critical sections is
\* tested: the read lock stays with the main loop after the lookup.
LookupKeepsRLock == <<0>>

\* b.mutex.RUnlock() right after the lookup
LookupRUnlock == Unlocked

\* A faulty send, against which the hand-off is tested: without a default
\* case the send waits for room in the channel.
SendWaits(buf) == Len(buf) < 1

\* select with a default case: some case is always ready
SendReady(buf) == TRUE

\* read one frame and look the identifier up under the read lock; an
\* identifier that is not in the table is logged and the frame dropped
MainRead ==
  /\ mainPc = "read"
  /\ stdin # <<>>
  /\ mutex = Unlocked
  /\ mutex' = LookupRUnlock
  /\ LET msg == Head(stdin)
         ch == PendingLookup(pending, msg.requestId)
     IN /\ stdin' = Tail(stdin)
        /\ IF ch # NoChan
             THEN /\ mainPc' = "send"
                  /\ mainChan' = ch
                  /\ mainMsg' = msg
             ELSE UNCHANGED mainVars
  /\ UNCHANGED <<pending, respChan, callVars, serverVars, connVars, handlerVars,
                 stdoutReq, framesIn, ptyVars, extVars>>

\* the non-blocking send to the channel found.  When the call that made the
\* channel has returned, nothing refers to the channel any more: what is sent
\* to it is garbage and is not kept in the state.
MainSend ==
  /\ mainPc = "send"
  /\ SendReady(IF mainChan \in InProgress THEN respChan[mainChan] ELSE <<>>)
  /\ IF mainChan \in InProgress
       THEN /\ respChan' = [respChan EXCEPT ![mainChan] = ChanTrySend(@, mainMsg)]
            /\ delivered' = [delivered EXCEPT ![mainChan] = Append(@, mainMsg.seq)]
       ELSE UNCHANGED <<respChan, delivered>>
  /\ mainPc' = "read"
  /\ mainChan' = NoChan
  /\ mainMsg' = NoMsg
  /\ UNCHANGED <<pending, mutex, nextCall, callReqId, callResult, recvCount,
                 serverVars, connVars, handlerVars, ioVars, ptyVars, extVars>>

(***************************************************************************)
(* SocketServer                                                            *)
(***************************************************************************)

\* Start up to the loop: os.Remove, net.Listen (which creates the socket
\* file, or fails: Start then returns the error), os.Chmod, s.running = true
ServerListen(ok) ==
  /\ acceptPc = "init"
  /\ IF ok
       THEN /\ listener' = "open"
            /\ socketFile' = TRUE
            /\ running' = TRUE
            /\ acceptPc' = "accept"
       ELSE /\ acceptPc' = "failed"
            /\ UNCHANGED <<listener, running, socketFile>>
  /\ UNCHANGED <<clients, bridgeVars, callVars, connVars, handlerVars, ioVars, mainVars, ptyVars,
                 sockStopPc, socketStops, sigPc, exited, afterProcVars>>

\* one iteration of the accept loop: Accept (connections are accepted in the
\* order they dialled), s.clients[conn] = true, go s.handleClient(conn)
ServerAccept(c) ==
  /\ acceptPc = "accept"
  /\ running
  /\ listener = "open"
  /\ connState[c] = "queued"
  /\ \A d \in Conns : d < c => connState[d] # "queued"
  /\ clients' = clients \cup {c}
  /\ connState' = [connState EXCEPT ![c] = "open"]
  /\ hPc' = [hPc EXCEPT ![c] = "read"]
  /\ UNCHANGED <<listener, running, acceptPc, connEof, connIn, connOut, cur,
                 bridgeVars, callVars, ioVars, mainVars, ptyVars, extVars>>

\* what handleClient does with the line read: a line that does not decode is
\* logged and skipped (continue), a request enters handleRequest
PcAfterLine(line) == IF line.kind = "bad" THEN "read" ELSE RequestNextPc("start")

\* A faulty cleanup, against which connection closing is tested: the
\* connection stays in the tracked set.
ClientsKept(c) == clients

\* s.clients after the deferred function of handleClient
ClientsAfterClose(c) == clients \ {c}

\* A faulty read, against which the order of the lines is tested: the line
\* sent last is handled first.
NewestLine(buf) == buf[Len(buf)]

\* reader.ReadBytes('\n'): the line sent first
OldestLine(buf) == Head(buf)

\* handleClient: reader.ReadBytes('\n') returned a line
HandleLine(c) ==
  /\ hPc[c] = "read"
  /\ connState[c] = "open"
  /\ connIn[c] # <<>>
  /\ LET line == OldestLine(connIn[c])
         n == nextCall
     IN /\ connIn' = [connIn EXCEPT ![c] = Tail(@)]
        /\ hPc' = [hPc EXCEPT ![c] = PcAfterLine(line)]
        /\ IF PcAfterLine(line) \in {"read", "closing"}
             THEN UNCHANGED <<cur, callVars, respChan>>
             ELSE /\ cur' = [cur EXCEPT ![c] = n]
                  /\ nextCall' = n + 1
                  /\ callReqId' = [callReqId EXCEPT ![n] = RequestIdOf(line.requestId, n)]
                  /\ UNCHANGED <<callResult, recvCount, delivered, respChan>>
  /\ UNCHANGED <<connState, connEof, connOut, pending, mutex, serverVars, ioVars,
                 mainVars, ptyVars>>

HandleClientLine(c) == HandleLine(c) /\ UNCHANGED extVars

\* handleClient: reader.ReadBytes('\n') returned an error (the client closed
\* its end and everything it sent has been read, or Stop closed the
\* connection): return
HandleClientReadError(c) ==
  /\ hPc[c] = "read"
  /\ \/ connIn[c] = <<>> /\ connEof[c]
     \/ connState[c] = "closed"
  /\ hPc' = [hPc EXCEPT ![c] = "closing"]
  /\ UNCHANGED <<cur, bridgeVars, callVars, serverVars, connVars, ioVars, mainVars, ptyVars, extVars>>

\* msg.RequestId: the identifier the client supplied in its request line
SuppliedId(id) == IF id \in {NewUuid(k) : k \in Calls} THEN EmptyId ELSE id

\* the error text of a browser:response that reports a failure
UpstreamError == "upstream"
FrameError(m) == IF m.success THEN "" ELSE UpstreamError

\* handleRequest: the SocketResponse built from what Request returned to
\* call n.  The data of a frame is identified by the frame (seq).
ResponseLine(n, r) ==
  IF r.kind = "resp"
  THEN [call |-> n, requestId |-> SuppliedId(callReqId[n]), success |-> r.msg.success,
        seq |-> r.msg.seq, err |-> FrameError(r.msg)]
  ELSE [call |-> n, requestId |-> SuppliedId(callReqId[n]), success |-> FALSE,
        seq |-> 0, err |-> r.err]

\* handleRequest after bridge.Request returned, and conn.Write of the
\* response line.  The call is over: its channel and locals are garbage.
HandleRespond(c) ==
  LET n == cur[c]
      r == callResult[n]
  IN
  /\ hPc[c] = "respond"
  /\ connOut' = [connOut EXCEPT ![c] = ResponseLine(n, r)]
  /\ hPc' = [hPc EXCEPT ![c] = "read"]
  /\ cur' = [cur EXCEPT ![c] = 0]
  /\ callResult' = [callResult EXCEPT ![n] = NoResult]
  /\ recvCount' = [recvCount EXCEPT ![n] = 0]
  /\ delivered' = [delivered EXCEPT ![n] = <<>>]
  /\ respChan' = [respChan EXCEPT ![n] = <<>>]
  /\ UNCHANGED <<connState, connEof, connIn, pending, mutex, nextCall, callReqId,
                 serverVars, ioVars, mainVars, ptyVars>>

HandleClientRespond(c) == HandleRespond(c) /\ UNCHANGED extVars

\* the deferred function of handleClient: delete(s.clients, conn); conn.Close()
HandleClientClose(c) ==
  /\ hPc[c] = "closing"
  /\ clients' = ClientsAfterClose(c)
  /\ connState' = [connState EXCEPT ![c] = "closed"]
  /\ hPc' = [hPc EXCEPT ![c] = "done"]
  /\ UNCHANGED <<listener, running, acceptPc, connEof, connIn, connOut, cur,
                 bridgeVars, callVars, ioVars, mainVars, ptyVars, extVars>>

(***************************************************************************)
(* Environment: socket clients and the browser                             *)
(***************************************************************************)

RequestLine(id) == [kind |-> "req", requestId |-> id]
BadLine == [kind |-> "bad", requestId |-> EmptyId]

\* request lines sent and not yet turned into a Request call
LinesQueued ==
  Cardinality({c \in Conns : connIn[c] # <<>> /\ Head(connIn[c]).kind = "req"})

\* net.Dial by a client: possible while the socket listens
ClientConnect(c) ==
  /\ connState[c] = "none"
  /\ \A d \in Conns : d < c => connState[d] # "none"
  /\ listener = "open"
  /\ connState' = [connState EXCEPT ![c] = "queued"]
  /\ UNCHANGED <<connEof, connIn, connOut, bridgeVars, callVars, serverVars,
                 handlerVars, ioVars, mainVars, ptyVars, extVars>>

\* a client writes a line: a request (with its own requestId or none) or
\* bytes that are no JSON document.  A line written while the handler is busy
\* waits in the connection's buffer until the handler reads again, so the
\* client is let to write when the handler is about to read.
ClientSend(c, line, maxCalls) ==
  /\ connState[c] = "open"
  /\ hPc[c] = "read"
  /\ ~connEof[c]
  /\ connIn[c] = <<>>
  /\ line.kind = "req" => nextCall + LinesQueued <= maxCalls
  /\ connIn' = [connIn EXCEPT ![c] = Append(@, line)]
  /\ UNCHANGED <<connState, connEof, connOut, bridgeVars, callVars, serverVars,
                 handlerVars, ioVars, mainVars, ptyVars, extVars>>

\* a client closes its end of the connection
ClientClose(c) ==
  /\ connState[c] = "open"
  /\ hPc[c] = "read"
  /\ connIn[c] = <<>>
  /\ ~connEof[c]
  /\ connEof' = [connEof EXCEPT ![c] = TRUE]
  /\ UNCHANGED <<connState, connIn, connOut, bridgeVars, callVars, serverVars,
                 handlerVars, ioVars, mainVars, ptyVars, extVars>>

\* the calls whose browser:request frame the browser has read in full
FramesVisible == {n \in Calls : [call |-> n, part |-> "write_body"] \in stdoutReq}

\* the browser sends a browser:response: the answer to a request frame it
\* has read (answers = that call), or one nobody asked for (answers = 0),
\* reporting success (ok) or a failure.
\* A frame is sent when the main loop is ready to read it.
BrowserAnswer(id, n, ok, maxFrames) ==
  /\ framesIn < maxFrames
  /\ stdin = <<>>
  /\ mainPc = "read"
  /\ \/ n \in FramesVisible /\ id = callReqId[n]
     \/ n = 0 /\ id = UnknownId
  /\ stdin' = Append(stdin, [requestId |-> id, answers |-> n, seq |-> framesIn + 1,
                             success |-> ok])
  /\ framesIn' = framesIn + 1
  /\ UNCHANGED <<stdoutReq, bridgeVars, callVars, serverVars, connVars, handlerVars,
                 mainVars, ptyVars, extVars>>

\* the browser sends a browser:response that reports success
BrowserRespond(id, n, maxFrames) == BrowserAnswer(id, n, TRUE, maxFrames)

(***************************************************************************)
(* PTYManager                                                              *)
(***************************************************************************)

NoOp == [op |-> "none", ptyOp |-> FALSE, err |-> FALSE, afterStop |-> FALSE]
\* a Write or Resize that returned: ptyOp says whether it operated on the
\* pseudo-terminal file, err whether it returned an error, afterStop whether
\* Stop had been invoked before it and no Start had launched a session since
OpDone(op, ptyOp, err) ==
  [op |-> op, ptyOp |-> ptyOp, err |-> err,
   afterStop |-> stopCalled /\ stopSession = sessions]

\* A faulty Start, against which the fallback is tested: a Gemini CLI that
\* is found and does not launch fails the Start.
StartWithoutFallback(found, launch, shell) ==
  IF found THEN (IF launch THEN "gemini" ELSE "none") ELSE IF shell THEN "shell" ELSE "none"

\* Start: the Gemini CLI when it is found and launches, else startShell;
\* the error of startShell is the error of Start
StartLaunches(found, launch, shell) ==
  IF found /\ launch THEN "gemini" ELSE IF shell THEN "shell" ELSE "none"

\* p.running after a successful pty.Start
RunningAfterStart == TRUE

\* p.ptmx after Stop: Stop closes the file and leaves the field as it is
PtmxAfterStop == ptmx

\* A faulty policy, against which the backpressure rule is tested: a full
\* channel drops its oldest chunk.
OutputChDropOldest(q, chunk) ==
  IF Len(q) < OutputChCap THEN Append(q, chunk) ELSE Append(Tail(q), chunk)

\* select { case p.outputCh <- chunk: ... default: ... }: a full channel drops
\* the chunk being sent
OutputChOffer(q, chunk) == IF Len(q) < OutputChCap THEN Append(q, chunk) ELSE q

\* Start, under p.mutex.  found: a gemini binary is found; launch: pty.Start
\* of it succeeds; shell: pty.Start of the login shell succeeds.
PtyStart(found, launch, shell, maxStarts) ==
  LET prog == StartLaunches(found, launch, shell)
      g == sessions + 1
  IN
  /\ ~panicked
  /\ ptyMutex = Unlocked
  /\ sessions < maxStarts
  /\ IF prog # "none"
       THEN /\ cmd' = g
            /\ ptmx' = g
            /\ ptyRunning' = RunningAfterStart
            /\ sessions' = g
            /\ program' = [program EXCEPT ![g] = prog]
            /\ ptmxOpen' = [ptmxOpen EXCEPT ![g] = TRUE]
            /\ procAlive' = [procAlive EXCEPT ![g] = TRUE]
            /\ readerPc' = [readerPc EXCEPT ![g] = "read"]
            /\ waitPc' = [waitPc EXCEPT ![g] = "wait"]
            /\ lastStart' = "ok"
            /\ stopCalls' = 0
       ELSE /\ cmd' = 0
            /\ ptmx' = 0
            /\ lastStart' = "err"
            /\ UNCHANGED <<ptyRunning, sessions, program, ptmxOpen, procAlive, readerPc, waitPc,
                           stopCalls>>
  /\ UNCHANGED <<ptyMutex, closeChan, panicked, outputVars, lastOp, stopCalled, stopSession,
                 relayVars, extVars>>

\* A faulty Stop, against which idempotence is tested: p.running is toggled.
RunningToggled == ~ptyRunning

\* p.running after Stop
RunningAfterStop == FALSE

\* Stop, under p.mutex: p.ptmx.Close(), p.cmd.Process.Kill(), p.running = false
PtyStop ==
  /\ ~panicked
  /\ ptyMutex = Unlocked
  /\ ptmxOpen' = IF ptmx # 0 THEN [ptmxOpen EXCEPT ![ptmx] = FALSE] ELSE ptmxOpen
  /\ procAlive' = IF cmd # 0 THEN [procAlive EXCEPT ![cmd] = FALSE] ELSE procAlive
  /\ ptmx' = PtmxAfterStop
  /\ ptyRunning' = RunningAfterStop
  /\ stopCalled' = TRUE
  /\ stopSession' = sessions
  /\ stopCalls' = IF stopCalls < MaxStops THEN stopCalls + 1 ELSE stopCalls
  /\ UNCHANGED <<cmd, ptyMutex, closeChan, sessions, program, readerPc, waitPc, panicked,
                 outputVars, lastStart, lastOp, relayVars, extVars>>

\* Write: lock; a nil p.ptmx returns nil at once; else p.ptmx.Write(data)
\* is entered with the lock held
PtyWriteBegin ==
  /\ ~panicked
  /\ ptyMutex = Unlocked
  /\ IF ptmx = 0
       THEN /\ lastOp' = OpDone("Write", FALSE, FALSE)
            /\ UNCHANGED ptyMutex
       ELSE /\ ptyMutex' = <<"Write">>
            /\ UNCHANGED lastOp
  /\ UNCHANGED <<cmd, ptmx, ptyRunning, closeChan, sessionVars, outputVars, lastStart,
                 stopCalled, stopSession, stopCalls, relayVars, extVars>>

\* p.ptmx.Write returns (it blocks while the child does not read): an error
\* on a closed file, success on an open one whose child lives, either once
\* the child is gone; the deferred Unlock
PtyWriteEnd(ok) ==
  /\ ~panicked
  /\ ptyMutex = <<"Write">>
  /\ ~ptmxOpen[ptmx] => ~ok
  /\ (ptmxOpen[ptmx] /\ procAlive[ptmx]) => ok
  /\ lastOp' = OpDone("Write", TRUE, ~ok)
  /\ ptyMutex' = Unlocked
  /\ UNCHANGED <<cmd, ptmx, ptyRunning, closeChan, sessionVars, outputVars, lastStart,
                 stopCalled, stopSession, stopCalls, relayVars, extVars>>

\* Resize, under p.mutex: a nil p.ptmx returns nil; else pty.Setsize, which
\* fails on a closed file
PtyResize ==
  /\ ~panicked
  /\ ptyMutex = Unlocked
  /\ lastOp' = IF ptmx = 0 THEN OpDone("Resize", FALSE, FALSE)
               ELSE OpDone("Resize", TRUE, ~ptmxOpen[ptmx])
  /\ UNCHANGED <<ptyFields, sessionVars, outputVars, lastStart, stopCalled, stopSession,
                 stopCalls, relayVars, extVars>>

\* the child process of session g terminates by itself
ProcExit(g) ==
  /\ ~panicked
  /\ procAlive[g]
  /\ procAlive' = [procAlive EXCEPT ![g] = FALSE]
  /\ UNCHANGED <<ptyFields, sessions, program, ptmxOpen, readerPc, waitPc, panicked,
                 outputVars, callerVars, relayVars, extVars>>

\* A faulty wait task, against which exit detection is tested: p.running is
\* left as it is.
RunningKept == ptyRunning

\* p.running after p.cmd.Wait() returned
RunningAfterExit == FALSE

\* the wait task of session g: p.cmd.Wait() returned; p.running = false under
\* p.mutex.  p.cmd is read without the lock: w is the process found there,
\* its own session's or the one a later Start stored (0: a command that was
\* never started, for which Wait returns at once).
WaitExit(g, w) ==
  /\ ~panicked
  /\ waitPc[g] = "wait"
  /\ w \in {g, cmd}
  /\ w # 0 => ~procAlive[w]
  /\ ptyMutex = Unlocked
  /\ ptyRunning' = RunningAfterExit
  /\ waitPc' = [waitPc EXCEPT ![g] = "close"]
  /\ UNCHANGED <<cmd, ptmx, ptyMutex, closeChan, sessions, program, ptmxOpen, procAlive,
                 readerPc, panicked, outputVars, callerVars, relayVars, extVars>>

\* the wait task: close(p.closeChan), which panics on a closed channel
WaitClose(g) ==
  /\ ~panicked
  /\ waitPc[g] = "close"
  /\ IF closeChan = "closed"
       THEN panicked' = TRUE /\ UNCHANGED closeChan
       ELSE closeChan' = "closed" /\ UNCHANGED panicked
  /\ waitPc' = [waitPc EXCEPT ![g] = "done"]
  /\ UNCHANGED <<cmd, ptmx, ptyRunning, ptyMutex, sessions, program, ptmxOpen, procAlive,
                 readerPc, outputVars, callerVars, relayVars, extVars>>

\* one iteration of readOutput of session g.  p.ptmx is read without the lock:
\* f is the file it finds there, its own session's or the one a later Start
\* stored.  Read fails on a nil or closed file and once the child is gone, and
\* readOutput returns; else it yields the next chunk, which is offered to
\* p.outputCh without blocking.
ReadOutput(g, f, maxChunks) ==
  /\ ~panicked
  /\ readerPc[g] = "read"
  /\ f \in {g, ptmx}
  /\ IF f = 0 \/ ~ptmxOpen[f] \/ ~procAlive[f]
       THEN /\ readerPc' = [readerPc EXCEPT ![g] = "done"]
            /\ UNCHANGED <<outputCh, chunksRead>>
       ELSE /\ chunksRead < maxChunks
            /\ chunksRead' = chunksRead + 1
            /\ outputCh' = OutputChOffer(outputCh, chunksRead + 1)
            /\ UNCHANGED readerPc
  /\ UNCHANGED <<ptyFields, sessions, program, ptmxOpen, procAlive, waitPc, panicked,
                 outputChOpen, drainPc, output, stdoutTerm, callerVars, relayVars, extVars>>

\* A faulty receive, against which the order of the output frames is tested:
\* the newest chunk of the channel is received.
OutputChRecvNewest(q) == q[Len(q)]

\* <-p.outputCh: the oldest chunk of the channel
OutputChRecv(q) == Head(q)

\* the drain task of runNativeMessagingMode: for output := range OutputChan()
\* (range receives the next chunk; it ends when the channel is closed and empty)
DrainRecv ==
  /\ ~panicked
  /\ drainPc = "recv"
  /\ IF outputCh # <<>>
       THEN /\ output' = OutputChRecv(outputCh)
            /\ outputCh' = Tail(outputCh)
            /\ drainPc' = "write"
       ELSE /\ ~outputChOpen
            /\ drainPc' = "done"
            /\ UNCHANGED <<output, outputCh>>
  /\ UNCHANGED <<ptyFields, sessionVars, outputChOpen, chunksRead, stdoutTerm, callerVars,
                 relayVars, extVars>>

\* ... WriteNativeMessage(os.Stdout, terminal:output frame); an error is logged
DrainWrite(ok) ==
  /\ ~panicked
  /\ drainPc = "write"
  /\ stdoutTerm' = IF ok THEN Append(stdoutTerm, output) ELSE stdoutTerm
  /\ output' = 0
  /\ drainPc' = "recv"
  /\ UNCHANGED <<ptyFields, sessionVars, outputCh, outputChOpen, chunksRead, callerVars,
                 relayVars, extVars>>

(***************************************************************************)
(* SocketServer.Stop, the accept loop step by step, and the ways the relay *)
(* process ends                                                            *)
(***************************************************************************)

\* the accept loop: s.listener.Accept() returned a connection
ServerAcceptConn(c) ==
  /\ acceptPc = "accept"
  /\ running
  /\ listener = "open"
  /\ connState[c] = "queued"
  /\ \A d \in Conns : d < c => connState[d] # "queued"
  /\ connState' = [connState EXCEPT ![c] = "accepted"]
  /\ acceptPc' = "track"
  /\ UNCHANGED <<listener, running, clients, connEof, connIn, connOut, handlerVars,
                 bridgeVars, callVars, ioVars, mainVars, ptyVars, extVars>>

\* the accept loop: s.clients[conn] = true under s.mutex; go s.handleClient(conn)
ServerTrack(c) ==
  /\ acceptPc = "track"
  /\ connState[c] = "accepted"
  /\ clients' = clients \cup {c}
  /\ connState' = [connState EXCEPT ![c] = "open"]
  /\ hPc' = [hPc EXCEPT ![c] = "read"]
  /\ acceptPc' = "accept"
  /\ UNCHANGED <<listener, running, connEof, connIn, connOut, cur,
                 bridgeVars, callVars, ioVars, mainVars, ptyVars, extVars>>

\* the accept loop: Accept fails on the closed listener, continue, and the
\* loop condition s.running is false: Start returns
ServerLoopEnd ==
  /\ acceptPc = "accept"
  /\ ~running
  /\ acceptPc' = "returned"
  /\ UNCHANGED <<listener, running, clients, connVars, handlerVars,
                 bridgeVars, callVars, ioVars, mainVars, ptyVars, extVars>>

\* A faulty Stop, against which the closing of the connections is tested:
\* the tracked connections are left as they are.
ConnsLeftOpen == connState

\* the connections after the loop of Stop: conn.Close() for every tracked one
ConnsAfterStop == [c \in Conns |-> IF c \in clients THEN "closed" ELSE connState[c]]

\* Stop is called: s.running = false
SockStopCall ==
  /\ sockStopPc = "idle"
  /\ running' = FALSE
  /\ sockStopPc' = "listener"
  /\ UNCHANGED <<listener, clients, acceptPc, connVars, handlerVars, bridgeVars, callVars,
                 ioVars, mainVars, ptyVars, socketFile, socketStops, sigPc, exited, afterProcVars>>

\* Stop: if s.listener != nil { s.listener.Close() }
SockStopListener ==
  /\ sockStopPc = "listener"
  /\ listener' = IF listener = "open" THEN "closed" ELSE listener
  /\ sockStopPc' = "clients"
  /\ UNCHANGED <<running, clients, acceptPc, connVars, handlerVars, bridgeVars, callVars,
                 ioVars, mainVars, ptyVars, socketFile, socketStops, sigPc, exited, afterProcVars>>

\* Stop: under s.mutex, conn.Close() for every connection in s.clients
SockStopClients ==
  /\ sockStopPc = "clients"
  /\ connState' = ConnsAfterStop
  /\ sockStopPc' = "remove"
  /\ UNCHANGED <<serverVars, connEof, connIn, connOut, handlerVars, bridgeVars, callVars,
                 ioVars, mainVars, ptyVars, socketFile, socketStops, sigPc, exited, afterProcVars>>

\* Stop: os.Remove(s.path), and Stop returns
SockStopRemove ==
  /\ sockStopPc = "remove"
  /\ socketFile' = FALSE
  /\ sockStopPc' = "idle"
  /\ socketStops' = IF socketStops < MaxStops THEN socketStops + 1 ELSE socketStops
  /\ UNCHANGED <<relayVars, ptyVars, sigPc, exited, afterProcVars>>

\* main: ptyManager.Start(), once
MainStartPty(found, launch, shell) ==
  /\ lastStart = "none"
  /\ PtyStart(found, launch, shell, 1)

\* main: log.Fatalf when Start failed
MainFatal ==
  /\ lastStart = "err"
  /\ exited' = "fatal"
  /\ UNCHANGED <<relayVars, ptyVars, socketFile, sockStopPc, socketStops, sigPc, afterProcVars>>

\* the main loop, case terminal:input: ptyManager.Write, in which the loop
\* stays until the write returns
MainInput ==
  /\ lastStart = "ok"
  /\ mainPc = "read"
  /\ PtyWriteBegin

\* the main loop: ReadNativeMessage fails (standard input closed, a frame
\* malformed or too large): break, runNativeMessagingMode and main return
MainEof ==
  /\ lastStart = "ok"
  /\ mainPc = "read"
  /\ ptyMutex # <<"Write">>
  /\ exited' = "eof"
  /\ UNCHANGED <<relayVars, ptyVars, socketFile, sockStopPc, socketStops, sigPc, afterProcVars>>

\* SIGINT or SIGTERM is delivered to the channel of the signal task, which
\* exists once Start has succeeded
SignalArrives ==
  /\ lastStart = "ok"
  /\ sigPc = "idle"
  /\ sigPc' = "handling"
  /\ UNCHANGED <<relayVars, ptyVars, socketFile, sockStopPc, socketStops, exited, afterProcVars>>

\* the signal task: ptyManager.Stop()
SigStopPty ==
  /\ sigPc = "handling"
  /\ stopCalls = 0
  /\ PtyStop

\* the signal task: socketServer.Stop() is called
SigStopSocket ==
  /\ sigPc = "handling"
  /\ stopCalls >= 1
  /\ socketStops = 0
  /\ SockStopCall

\* the signal task, after Stop returned: os.Remove(SocketPath); os.Exit(0)
SigExit ==
  /\ sigPc = "handling"
  /\ socketStops >= 1
  /\ sockStopPc = "idle"
  /\ socketFile' = FALSE
  /\ sigPc' = "done"
  /\ exited' = "signal"
  /\ UNCHANGED <<relayVars, ptyVars, sockStopPc, socketStops, afterProcVars>>

(***************************************************************************)
(* Specifications                                                          *)
(***************************************************************************)

InitRelay ==
  /\ pending = <<>>
  /\ respChan = [n \in Calls |-> <<>>]
  /\ mutex = Unlocked
  /\ nextCall = 1
  /\ callReqId = [n \in Calls |-> EmptyId]
  /\ callResult = [n \in Calls |-> NoResult]
  /\ recvCount = [n \in Calls |-> 0]
  /\ delivered = [n \in Calls |-> <<>>]
  /\ listener = "nil"
  /\ running = FALSE
  /\ clients = {}
  /\ acceptPc = "init"
  /\ connState = [c \in Conns |-> "none"]
  /\ connEof = [c \in Conns |-> FALSE]
  /\ connIn = [c \in Conns |-> <<>>]
  /\ connOut = [c \in Conns |-> NoLine]
  /\ hPc = [c \in Conns |-> "none"]
  /\ cur = [c \in Conns |-> 0]
  /\ stdoutReq = {}
  /\ stdin = <<>>
  /\ framesIn = 0
  /\ mainPc = "read"
  /\ mainChan = NoChan
  /\ mainMsg = NoMsg

InitPTY ==
  /\ cmd = 0
  /\ ptmx = 0
  /\ ptyRunning = FALSE
  /\ ptyMutex = Unlocked
  /\ outputCh = <<>>
  /\ outputChOpen = TRUE
  /\ closeChan = "open"
  /\ sessions = 0
  /\ program = [g \in Sess |-> "none"]
  /\ ptmxOpen = [g \in Sess |-> FALSE]
  /\ procAlive = [g \in Sess |-> FALSE]
  /\ readerPc = [g \in Sess |-> "none"]
  /\ waitPc = [g \in Sess |-> "none"]
  /\ panicked = FALSE
  /\ chunksRead = 0
  /\ drainPc = "recv"
  /\ output = 0
  /\ stdoutTerm = <<>>
  /\ lastStart = "none"
  /\ lastOp = NoOp
  /\ stopCalled = FALSE
  /\ stopSession = 0
  /\ stopCalls = 0

InitProc ==
  /\ socketFile = FALSE
  /\ sockStopPc = "idle"
  /\ socketStops = 0
  /\ sigPc = "idle"
  /\ exited = "no"

InitMcp ==
  /\ mcpConn = "nil"
  /\ dialAttempts = 0
  /\ connectResult = "none"
  /\ mcpPc = "connect"
  /\ mcpIn = <<>>
  /\ mcpOut = <<>>
  /\ sockW = 0
  /\ sockR = 0
  /\ sockBuf = "none"

InitCodec ==
  /\ wire = <<>>
  /\ wireClosed = FALSE
  /\ wireClean = TRUE
  /\ wireSent = <<>>
  /\ wireGot = <<>>
  /\ lastEnc = [n |-> 0, size |-> 0, err |-> "none"]
  /\ lastDec = [n |-> 0, read |-> 0, alloc |-> 0]

InitLoop ==
  /\ frameLog = <<>>
  /\ inRead = 0
  /\ loopPc = "read"
  /\ performed = <<>>

InitSave ==
  /\ saveArgs = [title |-> <<>>, format |-> "text", filename |-> <<>>, now |-> 0]
  /\ savePath = <<>>

InitAfterSave ==
  /\ sockReqs = <<>>
  /\ connLog = [c \in Conns |-> [sent |-> 0, read |-> <<>>, wrote |-> <<>>]]
  /\ stdoutStream = <<>>
  /\ sockLines = <<>>
  /\ relayRead = 0
  /\ mcpReads = <<>>
  /\ port = 0
  /\ livePorts = {}
  /\ timers = 0
  /\ portsOpened = 0
  /\ loaded = FALSE

Init ==
  /\ InitRelay /\ InitPTY /\ InitProc /\ InitMcp /\ InitCodec /\ InitLoop /\ InitSave
  /\ InitAfterSave

\* the steps of the Request call made by the handler of connection c
RequestStep(c) ==
  \/ RequestRegister(c)
  \/ \E ok \in BOOLEAN : RequestWrite(c, ok)
  \/ RequestRecv(c)
  \/ RequestTimeoutFires(c)
  \/ RequestCleanup(c)

\* the relay serving its socket clients: every client is served, requests come
\* with the client's identifier or none, the browser answers or not
NextBridge ==
  \/ ServerListen(TRUE)
  \/ \E c \in Conns : ClientConnect(c)
  \/ \E c \in Conns : ServerAccept(c)
  \/ \E c \in Conns, id \in {ClientId, EmptyId} : ClientSend(c, RequestLine(id), MaxCalls)
  \/ \E c \in Conns : HandleClientLine(c)
  \/ \E c \in Conns : RequestStep(c)
  \/ \E c \in Conns : HandleClientRespond(c)
  \/ \E n \in Calls \cup {0}, id \in {ClientId, UnknownId} \cup {NewUuid(k) : k \in Calls} :
        BrowserRespond(id, n, MaxFrames)
  \/ MainRead
  \/ MainSend

SpecBridge == Init /\ [][NextBridge]_vars

\* the same, the browser answering with success or with a failure
NextAnswer ==
  \/ ServerListen(TRUE)
  \/ \E c \in Conns : ClientConnect(c)
  \/ \E c \in Conns : ServerAccept(c)
  \/ \E c \in Conns, id \in {ClientId, EmptyId} : ClientSend(c, RequestLine(id), MaxCalls)
  \/ \E c \in Conns : HandleClientLine(c)
  \/ \E c \in Conns : RequestStep(c)
  \/ \E c \in Conns : HandleClientRespond(c)
  \/ \E n \in Calls \cup {0}, id \in {ClientId, UnknownId} \cup {NewUuid(k) : k \in Calls},
        ok \in BOOLEAN : BrowserAnswer(id, n, ok, MaxFrames)
  \/ MainRead
  \/ MainSend

SpecAnswer == Init /\ [][NextAnswer]_vars

\* the socket's life cycle: listening may fail, clients send lines that do
\* not decode and close their connections; requests carry no identifier
NextSocket ==
  \/ \E ok \in BOOLEAN : ServerListen(ok)
  \/ \E c \in Conns : ClientConnect(c)
  \/ \E c \in Conns : ServerAccept(c)
  \/ \E c \in Conns : ClientSend(c, RequestLine(EmptyId), MaxSockCalls)
  \/ \E c \in Conns : ClientSend(c, BadLine, MaxSockCalls)
  \/ \E c \in Conns : ClientClose(c)
  \/ \E c \in Conns : HandleClientLine(c)
  \/ \E c \in Conns : HandleClientReadError(c)
  \/ \E c \in Conns : RequestStep(c)
  \/ \E c \in Conns : HandleClientRespond(c)
  \/ \E c \in Conns : HandleClientClose(c)
  \/ \E n \in Calls : BrowserRespond(callReqId[n], n, MaxSockFrames)
  \/ MainRead
  \/ MainSend

SpecSocket == Init /\ [][NextSocket]_vars

\* the PTY session of the relay: Start once, the child writes output, the
\* drain task forwards it; the child may exit and Stop may be invoked
NextOutput ==
  \/ \E found, launch, shell \in BOOLEAN : PtyStart(found, launch, shell, 1)
  \/ \E g \in Sess, f \in Sess \cup {0} : ReadOutput(g, f, MaxChunks)
  \/ DrainRecv
  \/ DrainWrite(TRUE)
  \/ \E g \in Sess : ProcExit(g)
  \/ \E g \in Sess, w \in Sess \cup {0} : WaitExit(g, w)
  \/ \E g \in Sess : WaitClose(g)
  \/ PtyStop

SpecOutput == Init /\ [][NextOutput]_vars

\* every sequence of Start, Write, Resize and Stop calls on one PTYManager,
\* with its background tasks
NextPTY ==
  \/ \E found, launch, shell \in BOOLEAN : PtyStart(found, launch, shell, MaxStarts)
  \/ PtyStop
  \/ PtyWriteBegin
  \/ \E ok \in BOOLEAN : PtyWriteEnd(ok)
  \/ PtyResize
  \/ \E g \in Sess, f \in Sess \cup {0} : ReadOutput(g, f, MaxApiChunks)
  \/ \E g \in Sess : ProcExit(g)
  \/ \E g \in Sess, w \in Sess \cup {0} : WaitExit(g, w)
  \/ \E g \in Sess : WaitClose(g)

SpecPTY == Init /\ [][NextPTY]_vars

\* the API of PTYManager with Stop repeated at any moment
NextStop ==
  \/ \E found, launch, shell \in BOOLEAN : PtyStart(found, launch, shell, MaxStopStarts)
  \/ PtyStop
  \/ PtyWriteBegin
  \/ \E ok \in BOOLEAN : PtyWriteEnd(ok)
  \/ PtyResize
  \/ \E g \in Sess, f \in Sess \cup {0} : ReadOutput(g, f, MaxApiChunks)
  \/ \E g \in Sess : ProcExit(g)
  \/ \E g \in Sess, w \in Sess \cup {0} : WaitExit(g, w)
  \/ \E g \in Sess : WaitClose(g)

SpecStop == Init /\ [][NextStop]_vars

\* SocketServer.Stop invoked any number of times, at any moment, on a server
\* with its accept loop and its handlers
NextSockStop ==
  \/ \E ok \in BOOLEAN : ServerListen(ok)
  \/ \E c \in Conns : ClientConnect(c)
  \/ \E c \in Conns : ServerAcceptConn(c)
  \/ \E c \in Conns : ServerTrack(c)
  \/ ServerLoopEnd
  \/ \E c \in Conns : ClientClose(c)
  \/ \E c \in Conns : HandleClientReadError(c)
  \/ \E c \in Conns : HandleClientClose(c)
  \/ SockStopCall
  \/ SockStopListener
  \/ SockStopClients
  \/ SockStopRemove

SpecSockStop == Init /\ [][NextSockStop]_vars

\* the process has not exited
Alive == exited = "no"

\* p.ptmx.Write returns by itself where it cannot wait for the child: the
\* file is closed or the child is gone
WriteFails ==
  /\ ptyMutex = <<"Write">>
  /\ ~ptmxOpen[ptmx] \/ ~procAlive[ptmx]
  /\ \E ok \in BOOLEAN : PtyWriteEnd(ok)

\* the relay process from its start to its exit: the socket server, the PTY
\* session with its tasks, terminal input, the signal task; nothing runs
\* once the process has exited
NextShutdown ==
  \/ Alive /\ ServerListen(TRUE)
  \/ Alive /\ \E c \in Conns : ClientConnect(c)
  \/ Alive /\ \E c \in Conns : ServerAcceptConn(c)
  \/ Alive /\ \E c \in Conns : ServerTrack(c)
  \/ Alive /\ ServerLoopEnd
  \/ Alive /\ \E c \in Conns : HandleClientReadError(c)
  \/ Alive /\ \E c \in Conns : HandleClientClose(c)
  \/ Alive /\ \E found, launch, shell \in BOOLEAN : MainStartPty(found, launch, shell)
  \/ Alive /\ MainFatal
  \/ Alive /\ MainInput
  \/ Alive /\ \E ok \in BOOLEAN : PtyWriteEnd(ok)
  \/ Alive /\ MainEof
  \/ Alive /\ \E g \in Sess : ProcExit(g)
  \/ Alive /\ \E g \in Sess, w \in Sess \cup {0} : WaitExit(g, w)
  \/ Alive /\ \E g \in Sess : WaitClose(g)
  \/ Alive /\ SignalArrives
  \/ Alive /\ SigStopPty
  \/ Alive /\ SigStopSocket
  \/ Alive /\ SockStopListener
  \/ Alive /\ SockStopClients
  \/ Alive /\ SockStopRemove
  \/ Alive /\ SigExit

\* The Go scheduler runs every task of the relay that can take a step, and a
\* task waiting for p.mutex gets it when it is released again and again (a
\* sync.Mutex hands over to a starving waiter); when the child reads what
\* Write sends, when clients dial, when the child exits and when the browser
\* closes standard input is not up to the relay.
FairShutdown ==
  /\ SF_vars(Alive /\ SigStopPty)
  /\ WF_vars(Alive /\ SigStopSocket)
  /\ WF_vars(Alive /\ SockStopListener)
  /\ WF_vars(Alive /\ SockStopClients)
  /\ WF_vars(Alive /\ SockStopRemove)
  /\ WF_vars(Alive /\ SigExit)
  /\ WF_vars(Alive /\ ServerLoopEnd)
  /\ \A c \in Conns : WF_vars(Alive /\ ServerTrack(c))
  /\ \A c \in Conns : WF_vars(Alive /\ HandleClientReadError(c))
  /\ \A c \in Conns : WF_vars(Alive /\ HandleClientClose(c))
  /\ \A g \in Sess : WF_vars(Alive /\ WaitClose(g))
  /\ WF_vars(Alive /\ WriteFails)

SpecShutdown == Init /\ [][NextShutdown]_vars /\ FairShutdown

(***************************************************************************)
(* Properties of the BrowserBridge (under SpecBridge)                      *)
(***************************************************************************)

\* the requestIds of the Request calls made so far are pairwise distinct
AllIdsDistinct ==
  \A m, n \in 1..(nextCall - 1) : m # n => callReqId[m] # callReqId[n]

\* the step of HandleResponse that finds no entry for the frame's identifier
UnknownIdStep ==
  /\ mainPc = "read"
  /\ stdin # <<>>
  /\ stdin' = Tail(stdin)
  /\ Head(stdin).requestId \notin DOMAIN pending

\* C1: with pairwise distinct request identifiers, a Request call returns only
\* a response that carries its own requestId and answers its own frame, and
\* receives from its channel at most once; a HandleResponse whose identifier
\* is not in the pending table changes neither the table nor any channel nor
\* the outcome of any call.
C1_Correlation ==
  /\ [](AllIdsDistinct =>
          \A n \in InProgress :
             /\ recvCount[n] <= 1
             /\ callResult[n].kind = "resp" =>
                  /\ callResult[n].msg.requestId = callReqId[n]
                  /\ callResult[n].msg.answers = n)
  /\ [][UnknownIdStep => UNCHANGED <<pending, respChan, callResult, recvCount, mainVars>>]_vars

\* two concurrent calls with distinct identifiers have both received a response
C1_Witness ==
  /\ AllIdsDistinct
  /\ \E a, b \in Conns :
        /\ a # b /\ cur[a] # 0 /\ cur[b] # 0
        /\ callResult[cur[a]].kind = "resp"
        /\ callResult[cur[b]].kind = "resp"

\* C2: once a Request call has returned the timeout error the pending table
\* holds no entry of that call, and the response to its frame, arriving
\* later, is returned by no call.
C2_TimedOutIdGone ==
  \A c \in Conns :
     connOut[c].err = "timeout" =>
        /\ PendingLookup(pending, callReqId[connOut[c].call]) # connOut[c].call
        /\ \A m \in InProgress :
              callResult[m].kind = "resp" => callResult[m].msg.answers # connOut[c].call

\* C3: from its registration until its own deferred delete, the entry of a
\* Request call is in the pending table and holds that call's channel.
C3_EntryStaysUntilResolved ==
  \A c \in Conns :
     (cur[c] # 0 /\ hPc[c] \in {"write_len", "write_body", "wait", "cleanup"}) =>
        /\ callReqId[cur[c]] \in DOMAIN pending
        /\ pending[callReqId[cur[c]]] = cur[c]

\* a part of the browser:request frame of call n is on standard output
FrameStarted(n) == \E p \in {"write_len", "write_body"} : [call |-> n, part |-> p] \in stdoutReq

\* the step of HandleResponse that reads the answer to the frame of a call
\* that is still writing or waiting
AnswerStep(c) ==
  /\ cur[c] # 0
  /\ hPc[c] \in {"write_body", "wait"}
  /\ mainPc = "read"
  /\ stdin # <<>>
  /\ stdin' = Tail(stdin)
  /\ Head(stdin).answers = cur[c]

C5_FirstWriteWins ==
  /\ \A n \in InProgress :
        /\ recvCount[n] <= 1
        /\ Len(respChan[n]) <= 1
        /\ callResult[n].kind = "resp" =>
             /\ delivered[n] # <<>>
             /\ callResult[n].msg.seq = delivered[n][1]
  /\ mainPc = "send" => ENABLED MainSend

\* HandleResponse ran twice for a call in flight, which returns the first frame
C5_Witness ==
  \E n \in InProgress :
     /\ Len(delivered[n]) >= 2
     /\ callResult[n].kind = "resp"
     /\ callResult[n].msg.seq = delivered[n][1]

(***************************************************************************)
(* Properties of the SocketServer (under SpecSocket)                       *)
(***************************************************************************)

\* the handler of connection c reads a line that does not decode
BadLineStep(c) ==
  /\ hPc[c] = "read"
  /\ connIn[c] # <<>>
  /\ Head(connIn[c]).kind = "bad"
  /\ connIn' = [connIn EXCEPT ![c] = Tail(@)]

\* the handler of connection c gets an error from its read
ReadErrorStep(c) ==
  /\ hPc[c] = "read"
  /\ connIn[c] = <<>>
  /\ connEof[c]
  /\ hPc'[c] # "read"

\* the handler of connection c runs its deferred function
CloseStep(c) == hPc[c] = "closing" /\ hPc'[c] # "closing"

\* the step leaves every connection but c as it is
OthersUntouched(c) ==
  \A b \in Conns \ {c} :
     /\ connState'[b] = connState[b]
     /\ hPc'[b] = hPc[b]
     /\ cur'[b] = cur[b]
     /\ connIn'[b] = connIn[b]
     /\ connOut'[b] = connOut[b]
     /\ (b \in clients') = (b \in clients)

\* the next step of the handler of connection b can be taken now
HandlerCanStep(b) ==
  /\ hPc[b] = "register" => ENABLED RequestRegister(b)
  /\ hPc[b] \in {"write_len", "write_body"} => ENABLED RequestWrite(b, TRUE)
  /\ (hPc[b] = "wait" /\ respChan[cur[b]] # <<>>) => ENABLED RequestRecv(b)
  /\ hPc[b] = "cleanup" => ENABLED RequestCleanup(b)
  /\ hPc[b] = "respond" => ENABLED HandleClientRespond(b)

\* C6: a line that does not decode on one connection leaves every other
\* connection open and as it is; while the request of one connection waits in
\* Request, the main loop can hand a response over and the handler of every
\* other connection can take its next step, up to writing its answer.
C6_SocketIsolation ==
  /\ [][\A a \in Conns : BadLineStep(a) => OthersUntouched(a)]_vars
  /\ [](\A a, b \in Conns :
          (a # b /\ hPc[a] = "wait") =>
             /\ HandlerCanStep(b)
             /\ (mainPc = "read" /\ stdin # <<>>) => ENABLED MainRead
             /\ mainPc = "send" => ENABLED MainSend)

\* the later request of one connection is answered while the earlier request
\* of the other connection still waits
C6_Witness ==
  \E a, b \in Conns :
     /\ a # b
     /\ hPc[a] = "wait"
     /\ connOut[b].success
     /\ cur[a] < connOut[b].call

\* C7, as stated: a line that fails to decode ends the handler of its
\* connection.
C7_DecodeFailureCloses == [][\A c \in Conns : BadLineStep(c) => hPc'[c] = "closing"]_vars

\* C7: a read failure ends the handler, which removes the connection from the
\* tracked set and closes it; a line that fails to decode is skipped and the
\* connection stays open and tracked; neither touches another connection or
\* the accept loop.
C7_ReadFailureCloses ==
  /\ [][\A c \in Conns : ReadErrorStep(c) => hPc'[c] = "closing"]_vars
  /\ [](\A c \in Conns : hPc[c] = "closing" => ENABLED HandleClientClose(c))
  /\ [](\A c \in Conns : hPc[c] = "done" => (c \notin clients /\ connState[c] = "closed"))
  /\ [][\A c \in Conns :
          BadLineStep(c) => (hPc'[c] = "read" /\ connState'[c] = "open" /\ c \in clients')]_vars
  /\ [][\A c \in Conns :
          (BadLineStep(c) \/ ReadErrorStep(c) \/ CloseStep(c)) =>
             (OthersUntouched(c) /\ UNCHANGED <<listener, running, acceptPc>>)]_vars

\* one connection was closed after a read failure, the other is open and tracked
C7_Witness ==
  \E a, b \in Conns :
     /\ hPc[a] = "done"
     /\ connEof[a]
     /\ connState[b] = "open"
     /\ b \in clients
     /\ acceptPc = "accept"

(***************************************************************************)
(* Properties of the PTYManager (under SpecOutput and SpecPTY)             *)
(***************************************************************************)

\* readOutput read a chunk
ChunkReadStep == chunksRead' = chunksRead + 1

\* chunk k has left the pseudo-terminal and is nowhere on its way to the browser
Dropped(k) ==
  /\ k <= chunksRead
  /\ \A i \in 1..Len(outputCh) : outputCh[i] # k
  /\ output # k
  /\ \A i \in 1..Len(stdoutTerm) : stdoutTerm[i] # k

\* C8: a chunk read while the output channel holds 100 chunks is dropped and
\* the channel is left as it is; a chunk read while there is room is appended;
\* the channel never holds more than 100; a reader that has not returned can
\* always take its next step.
C8_NewestDropped ==
  /\ [][ChunkReadStep =>
          IF Len(outputCh) = OutputChCap
            THEN outputCh' = outputCh
            ELSE outputCh' = Append(outputCh, chunksRead')]_vars
  /\ [](Len(outputCh) <= OutputChCap)
  /\ [](\A g \in Sess :
          (readerPc[g] = "read" /\ ~panicked /\ chunksRead < MaxChunks) =>
             ENABLED ReadOutput(g, g, MaxChunks))

\* a chunk was dropped at a full channel and a later chunk is queued
C8_Witness ==
  /\ Dropped(OutputChCap + 1)
  /\ \A k \in 1..OutputChCap : ~Dropped(k)
  /\ outputCh # <<>>
  /\ outputCh[Len(outputCh)] > OutputChCap + 1

\* C9: once a session was launched and p.running is false again, no step
\* makes p.running true.
C9_ExitedIsFinal == [][(sessions > 0 /\ ~ptyRunning) => ~ptyRunning']_vars

\* C10: a Write or Resize made after Stop, with no Start in between, performs
\* no operation on the pseudo-terminal and returns no error.
C10_NoOpAfterStop == lastOp.afterStop => (~lastOp.ptyOp /\ ~lastOp.err)

\* the session has exited: Stop was invoked on a launched session, or the child terminated and the
\* wait task and the reader of its session have finished
SessionExited ==
  \/ stopCalled /\ stopSession > 0
  \/ \E g \in Sess : waitPc[g] = "done" /\ readerPc[g] = "done"

\* C11: once the PTY session has exited, the output channel is closed (so
\* that the range loop of the drain task ends).
C11_FeedClosedOnExit == SessionExited => ~outputChOpen

\* C12: a Stop invoked after a Stop, with no launch in between, changes
\* nothing of the PTYManager, its sessions and its output, and Stop is never
\* refused while no Write holds the lock.
C12_StopIdempotent ==
  /\ [][(stopCalls >= 1 /\ stopCalls' > stopCalls) =>
          UNCHANGED <<ptyFields, sessionVars, outputVars>>]_vars
  /\ []((~panicked /\ ptyMutex = Unlocked) => ENABLED PtyStop)

\* Stop was invoked twice on a launched session
C12_Witness == stopCalls = 2 /\ sessions > 0 /\ ~ptyRunning

(***************************************************************************)
(* Properties of the shutdown (under SpecShutdown and SpecSockStop)        *)
(***************************************************************************)

\* C13: once the signal task has received a signal, the process exits.
C13_SignalLeadsToExit == (sigPc = "handling") ~> (exited # "no")

\* nothing of the relay is left: the PTY session was stopped, the listener
\* and every accepted connection are closed, the socket file is gone
CleanedUp ==
  /\ stopCalled
  /\ listener # "open"
  /\ \A c \in Conns : connState[c] \notin {"accepted", "open"}
  /\ ~socketFile

\* C14: when the process has exited by a signal or because the framed read
\* loop ended, nothing of the relay is left.
C14_NothingOutlivesExit == exited \in {"signal", "eof"} => CleanedUp

\* a step of a Stop call
SockStopStep == sockStopPc' # sockStopPc

\* there is nothing left for Stop to do
SockStopped ==
  /\ ~running
  /\ listener # "open"
  /\ \A c \in clients : connState[c] = "closed"
  /\ ~socketFile

\* C15: Stop leaves the listener closed, then every tracked connection
\* closed, then the socket file removed; a Stop step taken where nothing is
\* left to do changes nothing of the server and its connections; no step of
\* Stop ever waits.
C15_SocketStop ==
  /\ [][(sockStopPc = "listener" /\ SockStopStep) => listener' # "open"]_vars
  /\ [][(sockStopPc = "clients" /\ SockStopStep) =>
          \A c \in clients : connState'[c] = "closed"]_vars
  /\ [][(sockStopPc = "remove" /\ SockStopStep) => ~socketFile']_vars
  /\ [][(SockStopped /\ SockStopStep) =>
          UNCHANGED <<serverVars, connVars, handlerVars, socketFile>>]_vars
  /\ [](/\ sockStopPc = "idle" => ENABLED SockStopCall
        /\ sockStopPc = "listener" => ENABLED SockStopListener
        /\ sockStopPc = "clients" => ENABLED SockStopClients
        /\ sockStopPc = "remove" => ENABLED SockStopRemove)

\* Stop returned twice; it closed a listener and a connection the client had
\* not closed, and the socket file is gone
C15_Witness ==
  /\ socketStops = 2
  /\ listener = "closed"
  /\ ~socketFile
  /\ \E c \in Conns : connState[c] = "closed" /\ ~connEof[c]

\* ------------------------------------------------------------------------
\* The Tool Facade (mcp_server.go): one task reading JSON-RPC lines from
\* standard input, answering on standard output, with one socket connection
\* to the relay.

\* actionMap
ActionMap ==
  [get_browser_dom |-> "getDom",
   get_browser_url |-> "getUrl",
   get_browser_selection |-> "getSelection",
   capture_browser_screenshot |-> "screenshot",
   execute_browser_script |-> "executeScript",
   modify_dom |-> "modifyDom",
   get_console_logs |-> "getConsoleLogs",
   inspect_page |-> "inspectPage",
   get_page_text |-> "getPageText"]

\* The lines standard input can deliver.  method "unparsable" stands for a
\* line json.Unmarshal rejects, "other" for a method handleRequest does not
\* know; args "invalid" for params that do not decode, "filename_number" for
\* arguments whose filename is not a string; size "toolong" for a line
\* longer than bufio.Scanner's token limit.
McpLine(m, t, a, z) == [method |-> m, tool |-> t, args |-> a, size |-> z]

McpLineSet ==
  {McpLine(m, "", "", "fits") :
     m \in {"initialize", "notifications/initialized", "tools/list", "other", "unparsable"}}
  \cup {McpLine("tools/call", t, a, "fits") :
          t \in {"get_browser_url", "save_page_to_file", "no_such_tool"},
          a \in {"none", "filename_string", "filename_number", "invalid"}}
  \cup {McpLine("tools/call", "get_browser_url", "none", "toolong")}

\* what the relay can put on the connection as its answer
RelayAnswers == {"unparsable", "failure", "data_map", "data_other"}

NoResponse == [id |-> 0, kind |-> "none", text |-> ""]
RoundTrip == [id |-> 0, kind |-> "roundtrip", text |-> ""]
Panic == [id |-> 0, kind |-> "panic", text |-> ""]
Result(id, text) == [id |-> id, kind |-> "result", text |-> text]
errorResponse(id, text) == [id |-> id, kind |-> "error", text |-> text]

ConnNeverNil(conn) == FALSE

\* s.conn == nil
ConnIsNil(conn) == conn = "nil"

\* handleToolsCall and handleSavePageToFile up to the write on the socket
handleToolsCall(conn, req, id) ==
  IF req.args = "invalid" THEN errorResponse(id, "Invalid params")
  ELSE IF req.tool = "save_page_to_file"
       THEN IF ConnIsNil(conn) THEN errorResponse(id, "Not connected") ELSE RoundTrip
  ELSE IF req.tool \notin DOMAIN ActionMap THEN errorResponse(id, "Unknown tool")
  ELSE IF ConnIsNil(conn) THEN errorResponse(id, "Not connected")
  ELSE RoundTrip

handleRequest(conn, req, id) ==
  CASE req.method = "initialize" -> Result(id, "initialize")
    [] req.method = "notifications/initialized" -> NoResponse
    [] req.method = "tools/list" -> Result(id, "tools")
    [] req.method = "tools/call" -> handleToolsCall(conn, req, id)
    [] OTHER -> NoResponse

\* handleToolsCall and handleSavePageToFile after the response line was read
OnResponse(req, id, line, fileOk) ==
  IF line = "unparsable" THEN errorResponse(id, "Failed to parse response")
  ELSE IF line = "failure" THEN errorResponse(id, UpstreamError)
  ELSE IF req.tool # "save_page_to_file" THEN Result(id, "content")
  ELSE IF line # "data_map" THEN errorResponse(id, "Invalid response format")
  ELSE IF req.args = "filename_number" THEN Panic
  ELSE IF fileOk THEN Result(id, "saved")
  ELSE errorResponse(id, "Failed to write file")

MoreRetriesOffByOne(i) == i <= MaxRetries

\* i < maxRetries
MoreRetries(i) == i < MaxRetries

\* connect: one net.Dial of the retry loop
McpDial(ok) ==
  /\ mcpPc = "connect"
  /\ dialAttempts' = dialAttempts + 1
  /\ IF ok
     THEN /\ mcpConn' = "open"
          /\ connectResult' = "ok"
          /\ mcpPc' = "scan"
     ELSE /\ mcpConn' = "nil"
          /\ IF MoreRetries(dialAttempts + 1)
             THEN UNCHANGED <<connectResult, mcpPc>>
             ELSE /\ connectResult' = "err"
                  /\ mcpPc' = "scan"
  /\ UNCHANGED <<mcpIn, mcpOut, sockW, sockR, sockBuf, relayVars, ptyVars, procVars, afterMcpVars>>

\* the request Run is handling, and its id
McpReq == mcpIn[Len(mcpIn)]
McpId == Len(mcpIn)

\* Run: scanner.Scan() delivers a line, handleRequest answers it or starts
\* the round trip
McpScan(line, maxLines) ==
  /\ mcpPc = "scan"
  /\ Len(mcpIn) < maxLines
  /\ mcpIn' = Append(mcpIn, line)
  /\ LET id == Len(mcpIn) + 1
         r == handleRequest(mcpConn, line, id)
     IN IF line.size = "toolong"
        THEN /\ mcpPc' = "ended"
             /\ UNCHANGED mcpOut
        ELSE IF line.method = "unparsable" \/ r.kind = "none"
        THEN UNCHANGED <<mcpPc, mcpOut>>
        ELSE IF r.kind = "roundtrip"
        THEN /\ mcpPc' = "write"
             /\ UNCHANGED mcpOut
        ELSE /\ mcpOut' = Append(mcpOut, r)
             /\ UNCHANGED mcpPc
  /\ UNCHANGED <<mcpConn, dialAttempts, connectResult, sockW, sockR, sockBuf,
                 relayVars, ptyVars, procVars, afterMcpVars>>

\* Run: standard input ends
McpEof ==
  /\ mcpPc = "scan"
  /\ mcpPc' = "ended"
  /\ UNCHANGED <<mcpConn, dialAttempts, connectResult, mcpIn, mcpOut, sockW, sockR, sockBuf,
                 relayVars, ptyVars, procVars, afterMcpVars>>

\* A faulty lookup, against which the mapping of tools to actions is tested:
\* every call asks the relay for the DOM.
AlwaysGetDom(req) == "getDom"

\* the Action of the SocketMessage a call writes
SocketAction(req) ==
  IF req.tool = "save_page_to_file" THEN "getPageForDownload" ELSE ActionMap[req.tool]

\* the SocketMessage of the call with id n (its uuid stands for itself), with
\* the tool that was called
SocketMessage(n, req) == [requestId |-> n, action |-> SocketAction(req), tool |-> req.tool]

PcSkipsRead == "scan"

\* after s.conn.Write the call reads the response line
PcAfterWrite == "read"

\* s.conn.Write(reqBytes)
McpWrite(ok) ==
  /\ mcpPc = "write"
  /\ IF ok
     THEN /\ sockW' = sockW + 1
          /\ sockReqs' = Append(sockReqs, SocketMessage(McpId, McpReq))
          /\ mcpPc' = PcAfterWrite
          /\ UNCHANGED mcpOut
     ELSE /\ mcpOut' = Append(mcpOut, errorResponse(McpId, "Failed to send request"))
          /\ mcpPc' = "scan"
          /\ UNCHANGED <<sockW, sockReqs>>
  /\ UNCHANGED <<mcpConn, dialAttempts, connectResult, mcpIn, sockR, sockBuf,
                 relayVars, ptyVars, procVars, codecVars, loopVars, saveVars, afterToolVars>>

\* the relay puts its answer to the outstanding request on the connection
RelayAnswer(line) ==
  /\ sockW > sockR
  /\ sockBuf = "none"
  /\ sockBuf' = line
  /\ UNCHANGED <<mcpConn, dialAttempts, connectResult, mcpPc, mcpIn, mcpOut, sockW, sockR,
                 relayVars, ptyVars, procVars, afterMcpVars>>

\* the rest of a call after reader.ReadBytes('\n') returned the line
ReadResponse(line, fileOk) ==
  /\ mcpPc = "read"
  /\ sockR' = sockR + 1
  /\ LET r == OnResponse(McpReq, McpId, line, fileOk)
     IN IF r.kind = "panic"
        THEN /\ mcpPc' = "crashed"
             /\ UNCHANGED mcpOut
        ELSE /\ mcpOut' = Append(mcpOut, r)
             /\ mcpPc' = "scan"
  /\ UNCHANGED <<mcpConn, dialAttempts, connectResult, mcpIn, sockW, relayVars, ptyVars, procVars>>

\* reader.ReadBytes('\n') returns a line; the rest of the call
McpRead(fileOk) ==
  /\ sockBuf # "none"
  /\ ReadResponse(sockBuf, fileOk)
  /\ sockBuf' = "none"
  /\ UNCHANGED afterMcpVars

\* reader.ReadBytes('\n') returns an error (the connection was closed)
McpReadError ==
  /\ mcpPc = "read"
  /\ sockBuf = "none"
  /\ sockR' = sockR + 1
  /\ mcpOut' = Append(mcpOut, errorResponse(McpId, "Failed to read response"))
  /\ mcpPc' = "scan"
  /\ UNCHANGED <<mcpConn, dialAttempts, connectResult, mcpIn, sockW, sockBuf,
                 relayVars, ptyVars, procVars, afterMcpVars>>

NextFacade ==
  \/ \E ok \in BOOLEAN : McpDial(ok)
  \/ \E line \in McpLineSet : McpScan(line, MaxMcpLines)
  \/ McpEof
  \/ \E ok \in BOOLEAN : McpWrite(ok)
  \/ \E line \in RelayAnswers : RelayAnswer(line)
  \/ \E fileOk \in BOOLEAN : McpRead(fileOk)
  \/ McpReadError

SpecFacade == Init /\ [][NextFacade]_vars

\* the line the step reads from standard input, and its id
LineRead == mcpIn'[Len(mcpIn')]
LineReadId == Len(mcpIn')
ScanStep == mcpIn' # mcpIn

Answered(line) == line.method \in {"initialize", "tools/list", "tools/call"}

\* the ids of the lines read that are to be answered, in the order read
AnsweredIds ==
  LET F[i \in 0..Len(mcpIn)] ==
        IF i = 0 THEN <<>>
        ELSE IF Answered(mcpIn[i]) THEN Append(F[i - 1], i) ELSE F[i - 1]
  IN F[Len(mcpIn)]

OutIds == [i \in 1..Len(mcpOut) |-> mcpOut[i].id]

\* C17: the ids of the output lines are the ids of the initialize,
\* tools/list and tools/call lines read, each once and in the order read;
\* while a call is on its round trip only its own output line is missing.
C17_OneOutputPerRequest ==
  /\ mcpPc \in {"scan", "ended", "crashed"} => OutIds = AnsweredIds
  /\ mcpPc \in {"write", "read"} =>
       /\ AnsweredIds # <<>>
       /\ OutIds = SubSeq(AnsweredIds, 1, Len(AnsweredIds) - 1)

\* C18: Run never crashes, and every tools/call handed to handleRequest whose
\* handling is over has an output line with its id that is a result or an
\* error.
C18_AlwaysAnswers ==
  /\ mcpPc # "crashed"
  /\ \A i \in 1..Len(mcpIn) :
       (/\ mcpIn[i].method = "tools/call"
        /\ mcpIn[i].size = "fits"
        /\ (i < Len(mcpIn) \/ mcpPc \in {"scan", "ended"})) =>
         \E j \in 1..Len(mcpOut) :
           mcpOut[j].id = i /\ mcpOut[j].kind \in {"result", "error"}

\* C19: connect dials at most MaxRetries times, one dial at a time and only
\* while it has not returned; it returns nil at the first dial that succeeds,
\* holding the connection, and an error after MaxRetries failures, holding
\* none; once it has returned nothing dials again.
C19_BoundedConnect ==
  /\ [](/\ dialAttempts <= MaxRetries
        /\ connectResult = "none" <=> mcpPc = "connect"
        /\ connectResult = "none" => mcpConn = "nil" /\ dialAttempts < MaxRetries
        /\ connectResult = "ok" => mcpConn = "open" /\ dialAttempts >= 1
        /\ connectResult = "err" => mcpConn = "nil" /\ dialAttempts = MaxRetries)
  /\ [][/\ dialAttempts' # dialAttempts =>
             connectResult = "none" /\ dialAttempts' = dialAttempts + 1
        /\ connectResult # "none" => UNCHANGED <<connectResult, mcpConn>>
        /\ mcpConn' # mcpConn =>
             mcpConn' = "open" /\ connectResult' = "ok" /\ mcpPc' = "scan"]_vars

C19_Witness ==
  /\ connectResult = "err"
  /\ dialAttempts = MaxRetries
  /\ mcpConn = "nil"
  /\ mcpOut # <<>>

\* C20: a call writes one request line and then reads once; a line is
\* written only when none is outstanding, a read returns only for the line
\* outstanding, and Run reads its next request, or ends, with none
\* outstanding.
C20_OneRoundTrip ==
  /\ [](/\ sockW - sockR \in {0, 1}
        /\ sockW - sockR = 1 <=> mcpPc = "read"
        /\ sockBuf # "none" => mcpPc = "read")
  /\ [][/\ sockW' # sockW => sockW = sockR /\ sockW' = sockW + 1 /\ mcpPc = "write"
        /\ sockR' # sockR => sockW = sockR + 1 /\ sockR' = sockR + 1 /\ sockW' = sockW
        /\ ScanStep => sockW = sockR /\ UNCHANGED <<sockW, sockR>>
        /\ mcpPc = "read" => mcpPc' \in {"read", "scan", "crashed"}]_vars

C20_Witness ==
  /\ sockW = 2
  /\ sockR = 2
  /\ Len(mcpOut) = 2
  /\ mcpOut[1].kind = "result"
  /\ mcpOut[2].text = "Failed to read response"

\* ------------------------------------------------------------------------
\* The framed channel codec: ReadNativeMessage and WriteNativeMessage as
\* functions on a byte stream.  A stream is a sequence whose elements are
\* single bytes (the bytes of a length prefix) and blocks of body bytes: a
\* block stands for n bytes, body being the JSON text they spell when they
\* are not junk.

\* const MaxMessageSize = 1024 * 1024
MaxMessageSize == 1024 * 1024

\* A Go string is a sequence of runs [u |-> unit, n |-> count].  A unit is one of
\*   "quote"  the character "          "lt"    the character <
\*   "e2"     a two-byte UTF-8 character
\*   "fffd"   the character U+FFFD (three bytes)
\*   "bad"    one byte that is not valid UTF-8
\* or any other string, standing for that ASCII text.
Special == {"quote", "lt", "e2", "fffd", "bad"}

\* bytes of a unit in the Go string
UnitBytes(u) ==
  CASE u = "quote" -> 1
    [] u = "lt" -> 1
    [] u = "e2" -> 2
    [] u = "fffd" -> 3
    [] u = "bad" -> 1
    [] OTHER -> Len(u)

\* json.Marshal of a string: the JSON token a unit is written as
EncodeUnit(u) ==
  CASE u = "quote" -> "\\q"
    [] u = "lt" -> "\\u003c"
    [] u = "bad" -> "\\ufffd"
    [] OTHER -> u

\* bytes of a token in the JSON text
TokenBytes(t) ==
  CASE t = "\\q" -> 2
    [] t \in {"\\u003c", "\\ufffd"} -> 6
    [] t = "e2" -> 2
    [] t = "fffd" -> 3
    [] OTHER -> Len(t)

\* json.Unmarshal of a string: the unit a JSON token is read as
DecodeToken(t) ==
  CASE t = "\\q" -> "quote"
    [] t = "\\u003c" -> "lt"
    [] t = "\\ufffd" -> "fffd"
    [] OTHER -> t

EncodeString(s) == [i \in 1..Len(s) |-> [u |-> EncodeUnit(s[i].u), n |-> s[i].n]]
DecodeString(j) == [i \in 1..Len(j) |-> [u |-> DecodeToken(j[i].u), n |-> j[i].n]]

RECURSIVE SumBytes(_, _)
SumBytes(f, i) == IF i = 0 THEN 0 ELSE f[i] + SumBytes(f, i - 1)

\* bytes of an encoded string between its quotes
StringBytes(j) == SumBytes([i \in 1..Len(j) |-> j[i].n * TokenBytes(j[i].u)], Len(j))

\* the values an interface{} field holds after json.Unmarshal, and nil
Nil == [k |-> "nil"]
Str(s) == [k |-> "string", s |-> s]
Num(v) == [k |-> "number", v |-> v]
Obj(n) == [k |-> "object", bytes |-> n]

\* json.Marshal of an interface{} value, and its bytes in the JSON text
EncodeValue(v) == IF v.k = "string" THEN Str(EncodeString(v.s)) ELSE v
DecodeValue(j) == IF j.k = "string" THEN Str(DecodeString(j.s)) ELSE j

ValueBytes(j) ==
  CASE j.k = "string" -> 2 + StringBytes(j.s)
    [] j.k = "number" -> (IF j.v < 10 THEN 1 ELSE IF j.v < 100 THEN 2 ELSE 3)
    [] j.k = "bool" -> 4
    [] j.k = "object" -> j.bytes

\* type Message struct
Message(t, d, c, r, id, a, p, ok, e) ==
  [type |-> t, data |-> d, cols |-> c, rows |-> r, requestId |-> id,
   action |-> a, params |-> p, success |-> ok, error |-> e]

\* the zero Message
ZeroMessage == Message(<<>>, Nil, Nil, Nil, Nil, <<>>, Nil, FALSE, <<>>)

Field(name, j) == <<[name |-> name, val |-> j]>>

\* json.Marshal(msg): the fields written, with omitempty
Marshal(msg) ==
  Field("type", Str(EncodeString(msg.type)))
  \o (IF msg.data = Nil THEN <<>> ELSE Field("data", EncodeValue(msg.data)))
  \o (IF msg.cols = Nil THEN <<>> ELSE Field("cols", EncodeValue(msg.cols)))
  \o (IF msg.rows = Nil THEN <<>> ELSE Field("rows", EncodeValue(msg.rows)))
  \o (IF msg.requestId = Nil THEN <<>> ELSE Field("requestId", EncodeValue(msg.requestId)))
  \o (IF msg.action = <<>> THEN <<>> ELSE Field("action", Str(EncodeString(msg.action))))
  \o (IF msg.params = Nil THEN <<>> ELSE Field("params", EncodeValue(msg.params)))
  \o (IF msg.success THEN Field("success", [k |-> "bool", v |-> TRUE]) ELSE <<>>)
  \o (IF msg.error = <<>> THEN <<>> ELSE Field("error", Str(EncodeString(msg.error))))

\* len(msgBytes): braces, and per field its quoted name, colon, value and comma
BodyLen(body) ==
  2 + SumBytes([i \in 1..Len(body) |-> Len(body[i].name) + 3 + ValueBytes(body[i].val)], Len(body))
    + (Len(body) - 1)

\* json.Unmarshal(msgBytes, &msg): fields not in the text keep their zero
RECURSIVE UnmarshalInto(_, _)
UnmarshalInto(msg, body) ==
  IF body = <<>> THEN msg
  ELSE LET f == Head(body)
           v == IF f.name \in {"type", "action", "error"} THEN DecodeString(f.val.s)
                ELSE IF f.name = "success" THEN f.val.v
                ELSE DecodeValue(f.val)
       IN UnmarshalInto([msg EXCEPT ![f.name] = v], Tail(body))

Unmarshal(body) == UnmarshalInto(ZeroMessage, body)

\* the elements of a stream
Byte(v) == [k |-> "byte", v |-> v]
Block(n, body) == [k |-> "block", bytes |-> n, junk |-> FALSE, body |-> body]
Junk(n) == [k |-> "block", bytes |-> n, junk |-> TRUE, body |-> <<>>]
IsByte(e) == e.k = "byte"
ElemBytes(e) == IF IsByte(e) THEN 1 ELSE e.bytes

\* binary.Write(w, binary.LittleEndian, length)
LittleEndian(n) ==
  <<Byte(n % 256), Byte((n \div 256) % 256), Byte((n \div 65536) % 256),
    Byte((n \div 16777216) % 256)>>

\* binary.Read(r, binary.LittleEndian, &length)
FromLittleEndian(b) == b[1].v + 256 * b[2].v + 65536 * b[3].v + 16777216 * b[4].v


\* reading n bytes from stream s: the elements got, the stream left, and
\* whether n bytes were there
RECURSIVE TakeBytes(_, _)
TakeBytes(s, n) ==
  IF n = 0 THEN [got |-> <<>>, rest |-> s, ok |-> TRUE]
  ELSE IF s = <<>> THEN [got |-> <<>>, rest |-> <<>>, ok |-> FALSE]
  ELSE LET h == Head(s)
           sz == ElemBytes(h)
       IN IF sz <= n
          THEN LET r == TakeBytes(Tail(s), n - sz)
               IN [got |-> <<h>> \o r.got, rest |-> r.rest, ok |-> r.ok]
          ELSE [got |-> <<Junk(n)>>,
                rest |-> <<Junk(sz - n)>> \o Tail(s),
                ok |-> TRUE]

GotBytes(got) == SumBytes([i \in 1..Len(got) |-> ElemBytes(got[i])], Len(got))

LengthBelowMax(n) == n < MaxMessageSize

\* !(length > MaxMessageSize)
LengthOk(n) == n <= MaxMessageSize

DecodeResult(m, e, rest, read, alloc) ==
  [msg |-> m, err |-> e, rest |-> rest, read |-> read, alloc |-> alloc]

\* ReadNativeMessage(r) on the stream s
ReadNativeMessage(s) ==
  LET p == TakeBytes(s, 4)
  IN IF ~p.ok \/ \E i \in 1..Len(p.got) : ~IsByte(p.got[i])
     THEN DecodeResult(ZeroMessage, "failed to read message length", p.rest, 0, 0)
     ELSE LET length == FromLittleEndian(p.got)
          IN IF ~LengthOk(length)
             THEN DecodeResult(ZeroMessage, "message too large", p.rest, 0, 0)
             ELSE LET b == TakeBytes(p.rest, length)
                  IN IF ~b.ok
                     THEN DecodeResult(ZeroMessage, "failed to read message body",
                                       b.rest, GotBytes(b.got), length)
                     ELSE IF Len(b.got) = 1 /\ ~IsByte(b.got[1]) /\ ~b.got[1].junk
                     THEN DecodeResult(Unmarshal(b.got[1].body), "none", b.rest, length, length)
                     ELSE DecodeResult(ZeroMessage, "failed to parse message JSON",
                                       b.rest, length, length)

\* WriteNativeMessage(w, msg) on the stream s; werr tells where the writer
\* fails: "none", "length" or "body"
WriteNativeMessage(s, msg, werr) ==
  LET body == Marshal(msg)
      n == BodyLen(body)
  IN IF ~LengthOk(n) THEN [err |-> "message too large", stream |-> s]
     ELSE IF werr = "length" THEN [err |-> "failed to write message length", stream |-> s]
     ELSE IF werr = "body"
     THEN [err |-> "failed to write message body", stream |-> s \o LittleEndian(n)]
     ELSE [err |-> "none", stream |-> s \o LittleEndian(n) \o <<Block(n, body)>>]

\* the strings and messages given to the codec
Text(u) == <<[u |-> u, n |-> 1]>>
Pad(n) == IF n = 0 THEN <<>> ELSE <<[u |-> "a", n |-> n]>>

OutputMessage(text) == Message(Text("terminal:output"), Str(text), Nil, Nil, Nil, <<>>, Nil, FALSE, <<>>)

\* bytes of a terminal:output payload around its data
OutputOverhead == BodyLen(Marshal(OutputMessage(<<>>)))

\* data lengths that put the payload at two bytes under the limit up to two over
PadLens == {MaxMessageSize - OutputOverhead + d : d \in -2..2}

CodecTexts ==
  {<<>>, Text("ls"), Text("quote"), Text("lt"), Text("e2"), Text("fffd"), Text("bad"),
   Text("e2") \o Text("bad")}
  \cup {Pad(n) : n \in PadLens}

CodecMessages ==
  {OutputMessage(t) : t \in CodecTexts}
  \cup {Message(Text("terminal:input"), Str(Text("ls")), Nil, Nil, Nil, <<>>, Nil, FALSE, <<>>),
        Message(Text("terminal:resize"), Nil, Num(80), Num(24), Nil, <<>>, Nil, FALSE, <<>>),
        Message(Text("browser:request"), Nil, Nil, Nil, Str(Text("r1")), Text("getUrl"), Nil, FALSE, <<>>),
        Message(Text("browser:request"), Nil, Nil, Nil, Str(Text("r1")), Text("click"), Obj(20), FALSE, <<>>),
        Message(Text("browser:response"), Obj(20), Nil, Nil, Str(Text("r1")), <<>>, Nil, TRUE, <<>>),
        Message(Text("browser:response"), Nil, Nil, Nil, Str(Text("r1")), <<>>, Nil, FALSE, Text("no tab")),
        ZeroMessage}

\* the lengths a peer declares in a frame it builds itself (below 2^31)
RawLens ==
  {0, 1, MaxMessageSize - 1, MaxMessageSize, MaxMessageSize + 1, 2 * MaxMessageSize,
   127 * 16777216}

\* a task calls WriteNativeMessage(w, msg)
CodecWrite(msg, werr, maxFrames) ==
  /\ ~wireClosed
  /\ lastEnc.n < maxFrames
  /\ LET w == WriteNativeMessage(wire, msg, werr)
     IN /\ wire' = w.stream
        /\ wireSent' = IF w.err = "none" THEN Append(wireSent, msg) ELSE wireSent
        /\ wireClean' = (wireClean /\ (w.err = "none" \/ w.stream = wire))
        /\ wireClosed' = (w.err \in {"failed to write message length", "failed to write message body"})
        /\ lastEnc' = [n |-> lastEnc.n + 1, size |-> BodyLen(Marshal(msg)), err |-> w.err]
  /\ UNCHANGED <<wireGot, lastDec, relayVars, ptyVars, procVars, mcpVars, afterCodecVars>>

\* a peer puts a frame of its own making on the stream: the prefix declares
\* len, the body is whole, one byte short, or missing
CodecPutRaw(len, body, maxFrames) ==
  /\ ~wireClosed
  /\ lastEnc.n < maxFrames
  /\ wire' = wire \o LittleEndian(len)
               \o (IF body = "whole" /\ len > 0 THEN <<Junk(len)>>
                   ELSE IF body = "short" /\ len > 1 THEN <<Junk(len - 1)>>
                   ELSE <<>>)
  /\ wireClean' = FALSE
  /\ lastEnc' = [n |-> lastEnc.n + 1, size |-> 0, err |-> "none"]
  /\ UNCHANGED <<wireClosed, wireSent, wireGot, lastDec, relayVars, ptyVars, procVars, mcpVars, afterCodecVars>>

\* the writing end of the stream is closed
CodecClose ==
  /\ ~wireClosed
  /\ wireClosed' = TRUE
  /\ UNCHANGED <<wire, wireClean, wireSent, wireGot, lastEnc, lastDec,
                 relayVars, ptyVars, procVars, mcpVars, afterCodecVars>>

\* the read loop has not ended on an error
Reading == IF wireGot = <<>> THEN TRUE ELSE wireGot[Len(wireGot)].err = "none"

\* the read loop calls ReadNativeMessage(r); the call waits while the bytes
\* it needs have not arrived and the stream is open
CodecRead ==
  /\ Reading
  /\ LET d == ReadNativeMessage(wire)
     IN /\ d.err \in {"failed to read message length", "failed to read message body"} => wireClosed
        /\ wire' = d.rest
        /\ wireGot' = Append(wireGot, [msg |-> d.msg, err |-> d.err])
        /\ lastDec' = [n |-> lastDec.n + 1, read |-> d.read, alloc |-> d.alloc]
  /\ UNCHANGED <<wireClosed, wireClean, wireSent, lastEnc, relayVars, ptyVars, procVars, mcpVars, afterCodecVars>>

NextCodec ==
  \/ \E msg \in CodecMessages, werr \in {"none", "length", "body"} : CodecWrite(msg, werr, MaxWireFrames)
  \/ \E len \in RawLens, body \in {"whole", "short", "none"} : CodecPutRaw(len, body, MaxWireFrames)
  \/ CodecClose
  \/ CodecRead

SpecCodec == Init /\ [][NextCodec]_vars

Returned(m) == [msg |-> m, err |-> "none"]
GotOk == Len(SelectSeq(wireGot, LAMBDA g : g.err = "none"))

\* C21: on a stream that carries only frames written by WriteNativeMessage,
\* the i-th call of ReadNativeMessage returns the i-th message written,
\* equal to it, and what is left on the stream is the frames (four prefix
\* bytes and one body each) of the messages not yet read.
C21_RoundTrip ==
  wireClean =>
    /\ \A i \in 1..Len(wireGot) : i <= Len(wireSent) => wireGot[i] = Returned(wireSent[i])
    /\ Len(wire) = 5 * (Len(wireSent) - GotOk)

\* the length declared by the four bytes at the head of the stream
Declared == FromLittleEndian(SubSeq(wire, 1, 4))
ReadStep == lastDec'.n # lastDec.n
ReadResult == wireGot'[Len(wireGot')]

\* C22: a call of ReadNativeMessage that finds a declared length above
\* MaxMessageSize fails with "message too large" having taken the four prefix
\* bytes only, no body byte read and no buffer allocated; a declared length
\* of exactly MaxMessageSize is never refused as too large, its buffer is
\* allocated and its body read.  A call of WriteNativeMessage whose payload
\* is above MaxMessageSize fails with "message too large" and leaves the
\* stream as it was; a payload of exactly MaxMessageSize is not refused.
C22_SizeLimit ==
  /\ [][(ReadStep /\ Len(wire) >= 4 /\ Declared > MaxMessageSize) =>
          /\ ReadResult.err = "message too large"
          /\ wire' = SubSeq(wire, 5, Len(wire))
          /\ lastDec'.read = 0
          /\ lastDec'.alloc = 0]_vars
  /\ [][(ReadStep /\ Len(wire) >= 4 /\ Declared = MaxMessageSize) =>
          /\ ReadResult.err # "message too large"
          /\ lastDec'.alloc = MaxMessageSize
          /\ ReadResult.err # "failed to read message body" => lastDec'.read = MaxMessageSize]_vars
  /\ [][(lastEnc'.n # lastEnc.n /\ lastEnc'.size > MaxMessageSize) =>
          /\ lastEnc'.err = "message too large"
          /\ wire' = wire
          /\ wireSent' = wireSent]_vars
  /\ [][(lastEnc'.n # lastEnc.n /\ lastEnc'.size = MaxMessageSize) =>
          lastEnc'.err # "message too large"]_vars

C22_Witness ==
  /\ lastEnc.err = "message too large"
  /\ wireGot # <<>>
  /\ wireGot[Len(wireGot)].err = "message too large"
  /\ lastDec.alloc = 0
  /\ wire # <<>>

\* ------------------------------------------------------------------------
\* The main loop of runNativeMessagingMode as the dispatcher of the frames
\* read from standard input.

\* A frame as ReadNativeMessage returns it: type, the kind of value in the
\* fields the loop looks at, and the place of the frame in the arrival order.
\* decodes = FALSE stands for bytes ReadNativeMessage fails on.
InFrame(t, d, id, geom, ok) ==
  [type |-> t, data |-> d, requestId |-> id, geom |-> geom, decodes |-> ok]

InFrames ==
  {InFrame("terminal:input", d, "nil", "nil", TRUE) : d \in {"string", "number", "nil"}}
  \cup {InFrame("terminal:resize", "nil", "nil", g, TRUE) : g \in {"numbers", "strings", "nil"}}
  \cup {InFrame("browser:response", "object", id, "nil", TRUE) : id \in {"string", "number", "nil"}}
  \cup {InFrame("terminal:output", "string", "nil", "nil", TRUE),
        InFrame("", "nil", "nil", "nil", FALSE)}

NoCall == "none"

\* A faulty switch, against which the handling of ill-typed fields is tested:
\* the call is chosen by the type alone.
DispatchByType(msg) ==
  CASE msg.type = "terminal:input" -> "Write"
    [] msg.type = "terminal:resize" -> "Resize"
    [] msg.type = "browser:response" -> "HandleResponse"
    [] OTHER -> NoCall

\* the switch on msg.Type: the call the loop makes for a frame
Dispatch(msg) ==
  CASE msg.type = "terminal:input" /\ msg.data = "string" -> "Write"
    [] msg.type = "terminal:resize" /\ msg.geom = "numbers" -> "Resize"
    [] msg.type = "browser:response" /\ msg.requestId = "string" -> "HandleResponse"
    [] OTHER -> NoCall

FrameNewest(read, n) == n

\* ReadNativeMessage(os.Stdin) returns the oldest frame not yet read
FrameOldest(read, n) == read + 1

\* a frame arrives on standard input
FrameArrives(f, maxFrames) ==
  /\ Len(frameLog) < maxFrames
  /\ frameLog' = Append(frameLog, f)
  /\ UNCHANGED <<inRead, loopPc, performed, relayVars, ptyVars, procVars, mcpVars, codecVars, afterLoopVars>>

\* one iteration up to the call: ReadNativeMessage, break on error, switch
LoopRead ==
  /\ loopPc = "read"
  /\ inRead < Len(frameLog)
  /\ LET i == FrameOldest(inRead, Len(frameLog))
         msg == frameLog[i]
     IN /\ inRead' = inRead + 1
        /\ IF ~msg.decodes
           THEN /\ loopPc' = "ended"
                /\ UNCHANGED performed
           ELSE IF Dispatch(msg) = NoCall
           THEN UNCHANGED <<loopPc, performed>>
           ELSE /\ loopPc' = "call"
                /\ performed' = Append(performed, [op |-> Dispatch(msg), frame |-> i])
  /\ UNCHANGED <<frameLog, relayVars, ptyVars, procVars, mcpVars, codecVars, afterLoopVars>>

\* the call returns (Write after p.ptmx.Write, Resize, HandleResponse) and the
\* loop goes on to its next read
LoopCallReturns ==
  /\ loopPc = "call"
  /\ loopPc' = "read"
  /\ UNCHANGED <<frameLog, inRead, performed, relayVars, ptyVars, procVars, mcpVars, codecVars, afterLoopVars>>

NextLoop ==
  \/ \E f \in InFrames : FrameArrives(f, MaxInFrames)
  \/ LoopRead
  \/ LoopCallReturns

SpecLoop == Init /\ [][NextLoop]_vars

\* the calls the frames read so far ask for, in arrival order
Expected ==
  LET F[i \in 0..inRead] ==
        IF i = 0 THEN <<>>
        ELSE IF frameLog[i].decodes /\ Dispatch(frameLog[i]) # NoCall
             THEN Append(F[i - 1], [op |-> Dispatch(frameLog[i]), frame |-> i])
             ELSE F[i - 1]
  IN F[inRead]

\* C23: the calls the main loop has made are, in order, the calls of the
\* frames it has read that carry a terminal:input with string data (Write), a
\* terminal:resize with numbers (Resize) or a browser:response with a string
\* requestId (HandleResponse); frames are read in arrival order, and none is
\* read while a call is in progress.
C23_DispatchInOrder ==
  /\ [](performed = Expected)
  /\ [][inRead' # inRead => loopPc = "read" /\ inRead' = inRead + 1]_vars
  /\ [][performed' # performed =>
          /\ loopPc = "read"
          /\ Len(performed') = Len(performed) + 1
          /\ performed'[Len(performed')].frame = inRead']_vars

C23_Witness ==
  /\ Len(performed) = 3
  /\ performed[1].op = "HandleResponse"
  /\ performed[2].op = "Write"
  /\ performed[3].op = "Resize"

\* the main loop takes a frame from standard input and looks its requestId up
FrameLookupStep == mainPc = "read" /\ stdin # <<>> /\ stdin' = Tail(stdin)
\* the handler of connection c writes the response line of its call
RespondStep(c) == hPc[c] = "respond" /\ hPc'[c] = "read"

\* C24: a browser:response that arrives with the requestId of a request a
\* client's handler waits on, the slot of that request being empty, is handed
\* to that request; and the response line a handler writes carries the
\* requestId of the client's request line and, when Request returned a
\* frame, the success, data and error of that frame, which bears the
\* requestId of the request.
C24_ResponsePassedThrough ==
  /\ [][\A c \in Conns :
          (/\ FrameLookupStep
           /\ hPc[c] = "wait"
           /\ callReqId[cur[c]] = Head(stdin).requestId
           /\ respChan[cur[c]] = <<>>) =>
            mainChan' = cur[c] /\ mainMsg' = Head(stdin)]_vars
  /\ [][\A c \in Conns :
          RespondStep(c) =>
            LET r == callResult[cur[c]]
                line == connOut'[c]
            IN /\ line.requestId = SuppliedId(callReqId[cur[c]])
               /\ r.kind = "resp" =>
                    /\ r.msg.requestId = callReqId[cur[c]]
                    /\ line.success = r.msg.success
                    /\ line.seq = r.msg.seq
                    /\ line.err = FrameError(r.msg)]_vars

\* the call of connection c has failed (timeout, or the frame write failed)
CallFailed(c) == cur[c] # 0 /\ callResult[cur[c]].kind = "err"
\* a step of the handler of connection c
HandlerStep(c) == hPc'[c] # hPc[c]

\* C25: a call that timed out or failed to write its frame is answered with
\* a failure line carrying the error text, and its handler is back at
\* reading its connection, which stays open; the steps the failed call takes
\* (its deferred delete, the response line) leave the accept loop, the PTY
\* session, and the pending entry and slot of every other call as they were.
C25_FailureIsolated ==
  /\ [][\A c \in Conns :
          (RespondStep(c) /\ CallFailed(c)) =>
            /\ ~connOut'[c].success
            /\ connOut'[c].err = callResult[cur[c]].err
            /\ connOut'[c].err \in {"timeout", "send"}
            /\ connState'[c] = connState[c]
            /\ ENABLED HandleClientLine(c) \/ connIn[c] = <<>>]_vars
  /\ [][\A c \in Conns :
          (CallFailed(c) /\ HandlerStep(c)) =>
            /\ UNCHANGED <<serverVars, ptyVars>>
            /\ \A m \in Calls \ {cur[c]} :
                 /\ respChan'[m] = respChan[m]
                 /\ PendingLookup(pending, callReqId[m]) = m =>
                      PendingLookup(pending', callReqId[m]) = m]_vars

\* ------------------------------------------------------------------------
\* handleSavePageToFile: the path of the file written.  Strings are
\* sequences of code points; a path is its sequence of components.

\* len(safe) > 50
TitleLimit == 50

Slash == 47
Dot == 46
Hyphen == 45

\* filepath.Join(homeDir, "Library", "Application Support", "ChromeGeminiSync", "pages")
PagesDir == <<"home", "Library", "Application Support", "ChromeGeminiSync", "pages">>

\* the condition of the loop over the runes of the title
KeepRune(r) ==
  \/ (r >= 97 /\ r <= 122)
  \/ (r >= 65 /\ r <= 90)
  \/ (r >= 48 /\ r <= 57)
  \/ r = 32
  \/ r = Hyphen

\* safe after the loop: for _, r := range safeTitle { if ... { safe += string(r) } }
SafeRunes(title) == SelectSeq(title, KeepRune)

KeepAll(safe) == safe

\* if len(safe) > 50 { safe = safe[:50] }
Truncate(safe) == IF Len(safe) > TitleLimit THEN SubSeq(safe, 1, TitleLimit) ELSE safe

\* "page"
PageWord == <<112, 97, 103, 101>>

SafeTitle(title) == IF title # <<>> THEN Truncate(SafeRunes(title)) ELSE PageWord

\* ext
ExtOf(format) ==
  IF format = "html" THEN <<Dot, 104, 116, 109, 108>>
  ELSE IF format = "markdown" THEN <<Dot, 109, 100>>
  ELSE <<Dot, 116, 120, 116>>

\* %d
RECURSIVE Decimal(_)
Decimal(n) == IF n < 10 THEN <<48 + n>> ELSE Decimal(n \div 10) \o <<48 + (n % 10)>>

\* fmt.Sprintf("%s-%d%s", safeTitle, time.Now().Unix(), ext)
GeneratedName(title, format, now) == SafeTitle(title) \o <<Hyphen>> \o Decimal(now) \o ExtOf(format)

\* the components of a slash-separated name
SplitName(name) ==
  LET cuts == {0} \cup {i \in 1..Len(name) : name[i] = Slash} \cup {Len(name) + 1}
      Cut(k) == CHOOSE c \in cuts : Cardinality({d \in cuts : d < c}) = k - 1
  IN [k \in 1..(Cardinality(cuts) - 1) |-> SubSeq(name, Cut(k) + 1, Cut(k + 1) - 1)]

\* filepath.Join(dir, name): the cleaned path, "." and empty components
\* dropped and ".." taking the component before it away
RECURSIVE CleanOnto(_, _)
CleanOnto(path, comps) ==
  IF comps = <<>> THEN path
  ELSE LET c == Head(comps)
       IN IF c = <<>> \/ c = <<Dot>> THEN CleanOnto(path, Tail(comps))
          ELSE IF c = <<Dot, Dot>>
          THEN CleanOnto(IF path = <<>> THEN path ELSE SubSeq(path, 1, Len(path) - 1), Tail(comps))
          ELSE CleanOnto(Append(path, c), Tail(comps))

Join(dir, name) == CleanOnto(dir, SplitName(name))

\* filePath
FilePath(args) ==
  IF args.filename # <<>> THEN Join(PagesDir, args.filename)
  ELSE Join(PagesDir, GeneratedName(args.title, args.format, args.now))

Rep(r, n) == [i \in 1..n |-> r]

\* the titles, file names, formats and times of the calls
Affixes == {<<>>, <<65>>, <<90, 48>>, <<Slash>>, <<233>>, <<32, Hyphen>>, <<Dot, Dot, Slash>>,
            <<91, 96>>, <<64, 123, 57>>}
TitleRuns == {0, 1} \cup ((MaxTitleRun - 2)..MaxTitleRun)
Titles == {pre \o Rep(97, n) \o suf : pre \in Affixes, suf \in Affixes, n \in TitleRuns}
FileNames == {<<>>, <<120>>, <<Dot, Dot, Slash, 120>>}
Formats == {"text", "html", "markdown", "pdf"}
Times == {0, 9, 1700000000}

\* the arguments of one tools/call of save_page_to_file and the clock
SaveCalls ==
  [title : Titles, format : Formats, filename : FileNames, now : Times]

InitSaveCall ==
  /\ InitRelay /\ InitPTY /\ InitProc /\ InitMcp /\ InitCodec /\ InitLoop /\ InitAfterSave
  /\ saveArgs \in SaveCalls
  /\ savePath = <<>>

\* handleSavePageToFile on a successful answer of the relay, up to the path
SavePage ==
  /\ savePath = <<>>
  /\ savePath' = FilePath(saveArgs)
  /\ UNCHANGED <<relayVars, ptyVars, procVars, mcpVars, codecVars, loopVars, saveArgs,
                 afterSaveVars>>

NextSave == SavePage

SpecSave == InitSaveCall /\ [][NextSave]_vars

\* the characters the claim allows in the prefix
AllowedChars == (48..57) \cup (65..90) \cup (97..122) \cup {32, Hyphen}
FirstN(q, n) == IF Len(q) > n THEN SubSeq(q, 1, n) ELSE q
ExpectedPrefix(title) ==
  IF title = <<>> THEN <<112, 97, 103, 101>>
  ELSE FirstN(SelectSeq(title, LAMBDA r : r \in AllowedChars), 50)
ExpectedExt(format) ==
  CASE format = "markdown" -> <<46, 109, 100>>
    [] format = "html" -> <<46, 104, 116, 109, 108>>
    [] OTHER -> <<46, 116, 120, 116>>
RECURSIVE DecimalValue(_)
DecimalValue(d) ==
  IF d = <<>> THEN 0 ELSE 10 * DecimalValue(SubSeq(d, 1, Len(d) - 1)) + (d[Len(d)] - 48)
Saved == savePath # <<>>
FileName == savePath[Len(savePath)]

NextHandOff ==
  \/ ServerListen(TRUE)
  \/ \E c \in Conns : ClientConnect(c)
  \/ \E c \in Conns : ServerAccept(c)
  \/ \E c \in Conns, id \in {ClientId, EmptyId} : ClientSend(c, RequestLine(id), MaxHandCalls)
  \/ \E c \in Conns : HandleClientLine(c)
  \/ \E c \in Conns : RequestStep(c)
  \/ \E c \in Conns : HandleClientRespond(c)
  \/ \E n \in Calls \cup {0}, id \in {ClientId, UnknownId} \cup {NewUuid(k) : k \in Calls} :
        BrowserRespond(id, n, MaxHandFrames)
  \/ MainRead
  \/ MainSend

SpecHandOff == Init /\ [][NextHandOff]_vars

\* the handler that makes call n, and what it is doing
CallerOf(n) == CHOOSE c \in Conns : cur[c] = n
Waiting(n) == n \in InProgress /\ hPc[CallerOf(n)] = "wait"

NextLock ==
  \/ ServerListen(TRUE)
  \/ \E c \in Conns : ClientConnect(c)
  \/ \E c \in Conns : ServerAccept(c)
  \/ \E c \in Conns, id \in {ClientId, EmptyId} : ClientSend(c, RequestLine(id), MaxLockCalls)
  \/ \E c \in Conns : HandleClientLine(c)
  \/ \E c \in Conns : RequestStep(c)
  \/ \E c \in Conns : HandleClientRespond(c)
  \/ \E n \in Calls \cup {0}, id \in {ClientId, UnknownId} \cup {NewUuid(k) : k \in Calls} :
        BrowserRespond(id, n, MaxLockFrames)
  \/ MainRead
  \/ MainSend

SpecLock == Init /\ [][NextLock]_vars

\* C28: b.mutex is held by no task that writes the request frame, waits for
\* the response or the timeout, or hands a response to a channel; a call
\* that waits keeps no other call from registering and keeps the main loop
\* from looking an identifier up.
C28_LockOnlyAroundMapOps ==
  /\ (\E c \in Conns : hPc[c] \in {"write_len", "write_body", "wait"}) => mutex = Unlocked
  /\ mainPc = "send" => mutex = Unlocked
  /\ \A c, d \in Conns :
       (hPc[c] = "wait" /\ hPc[d] = "register") => ENABLED RequestRegister(d)
  /\ \A c \in Conns :
       (hPc[c] = "wait" /\ mainPc = "read" /\ stdin # <<>>) => ENABLED MainRead

\* one call waits while another is about to register and the main loop has
\* found a channel and is about to send
C28_Witness ==
  /\ mainPc = "send"
  /\ \E c, d \in Conns : hPc[c] = "wait" /\ hPc[d] = "register"

\* one session of a PTYManager whose output nobody receives: the reader task
\* fills the queue, Write, Resize and Stop are invoked at any moment, the
\* child exits when it will
NextExit ==
  \/ \E found, launch, shell \in BOOLEAN : PtyStart(found, launch, shell, 1)
  \/ PtyStop
  \/ PtyWriteBegin
  \/ \E ok \in BOOLEAN : PtyWriteEnd(ok)
  \/ PtyResize
  \/ \E g \in Sess, f \in Sess \cup {0} : ReadOutput(g, f, MaxChunks)
  \/ \E g \in Sess : ProcExit(g)
  \/ \E g \in Sess, w \in Sess \cup {0} : WaitExit(g, w)
  \/ \E g \in Sess : WaitClose(g)

\* The scheduler runs the wait task when it can take a step, and hands
\* p.mutex to it when the lock is released again and again (a sync.Mutex
\* hands over to a starving waiter); a Write in progress returns once the
\* child is gone.  Nothing is assumed of the reader task or of the callers.
FairExit ==
  /\ \A g \in Sess : SF_vars(WaitExit(g, g))
  /\ WF_vars(WriteFails)

SpecExit == Init /\ [][NextExit]_vars /\ FairExit

\* the child of the session p.cmd refers to has terminated and p.running is
\* still true
ChildGone == sessions > 0 /\ cmd = sessions /\ ptyRunning /\ ~procAlive[sessions]

\* C29: once the child of a running session has terminated, p.running
\* becomes false, whatever the length of the output queue, which nobody
\* receives from.
C29_ExitDetected == ChildGone ~> ~ptyRunning

\* the wait task has set p.running to false with the queue full, and Stop
\* was not invoked
C29_Witness ==
  /\ Len(outputCh) = OutputChCap
  /\ chunksRead > OutputChCap
  /\ sessions > 0
  /\ waitPc[sessions] \in {"close", "done"}
  /\ ~ptyRunning
  /\ ~stopCalled

\* a Start call that found the Gemini CLI or not, whose launch of it
\* succeeded or not, and whose launch of the login shell would
StartCall(found, launch, shell) == PtyStart(found, launch, shell, MaxStopStarts)

\* the session a Start call launches
Launched == sessions + 1

\* C30: a Start call returns an error only when the login shell does not
\* launch; when the Gemini CLI is absent or does not launch and the shell
\* does, Start returns nil, p.running is true, p.cmd and p.ptmx are the
\* shell's process and terminal, and the tasks started are the reader and
\* the wait task of that session and no other.
C30_ShellFallback ==
  [][\A found, launch, shell \in BOOLEAN :
       StartCall(found, launch, shell) =>
         /\ lastStart' = "err" => ~shell
         /\ (~(found /\ launch) /\ shell) =>
              /\ lastStart' = "ok"
              /\ ptyRunning'
              /\ sessions' = Launched
              /\ program'[Launched] = "shell"
              /\ cmd' = Launched /\ procAlive'[Launched]
              /\ ptmx' = Launched /\ ptmxOpen'[Launched]
              /\ readerPc[Launched] = "none" /\ readerPc'[Launched] = "read"
              /\ waitPc[Launched] = "none" /\ waitPc'[Launched] = "wait"
              /\ \A h \in Sess \ {Launched} :
                   readerPc'[h] = readerPc[h] /\ waitPc'[h] = waitPc[h]]_vars

\* Start has launched the shell, and its two tasks have not run yet
C30_Witness ==
  /\ lastStart = "ok"
  /\ sessions > 0
  /\ program[sessions] = "shell"
  /\ ptyRunning
  /\ cmd = sessions /\ procAlive[sessions]
  /\ readerPc[sessions] = "read"
  /\ waitPc[sessions] = "wait"

\* ------------------------------------------------------------------------
\* The Tool Facade and its tool table

\* tools/call lines for tools of the table, for save_page_to_file, for names
\* that are no tool, with params that decode or not; and a tools/list line
ToolLineSet ==
  {McpLine("tools/call", t, a, "fits") :
     t \in {"get_browser_url", "get_browser_dom", "save_page_to_file", "no_such_tool", ""},
     a \in {"none", "invalid"}}
  \cup {McpLine("tools/list", "", "", "fits")}

NextTools ==
  \/ \E ok \in BOOLEAN : McpDial(ok)
  \/ \E line \in ToolLineSet : McpScan(line, MaxToolLines)
  \/ McpEof
  \/ \E ok \in BOOLEAN : McpWrite(ok)
  \/ \E line \in RelayAnswers : RelayAnswer(line)
  \/ \E fileOk \in BOOLEAN : McpRead(fileOk)
  \/ McpReadError

SpecTools == Init /\ [][NextTools]_vars

\* the step reads a tools/call line
CallRead == ScanStep /\ LineRead.size = "fits" /\ LineRead.method = "tools/call"

\* the step answers the line it read with the error and leaves the socket alone
Refused(text) ==
  /\ mcpOut' = Append(mcpOut, errorResponse(LineReadId, text))
  /\ mcpPc' = "scan"
  /\ UNCHANGED <<sockW, sockR, sockReqs>>

\* C31 as stated: every tools/call for a name that is not in actionMap is
\* answered with the unknown-tool error and nothing is written on the
\* socket; every request line written is for a name of actionMap and
\* carries the action actionMap gives for it.
C31_OnlyTableToolsSend ==
  /\ [][(CallRead /\ LineRead.tool \notin DOMAIN ActionMap) => Refused("Unknown tool")]_vars
  /\ [](\A i \in 1..Len(sockReqs) :
          /\ sockReqs[i].tool \in DOMAIN ActionMap
          /\ sockReqs[i].action = ActionMap[sockReqs[i].tool])

\* C31, amended: a tools/call whose params decode, for a name that is
\* neither in actionMap nor save_page_to_file, is answered with the
\* unknown-tool error, connected or not, and nothing is written on the
\* socket; one whose params do not decode is answered with the
\* invalid-params error whatever the name, and nothing is written either;
\* every request line written is for a name of actionMap, with the action
\* actionMap gives for it, or for save_page_to_file, with getPageForDownload.
C31_UnlistedToolRefused ==
  /\ [][/\ (/\ CallRead
            /\ LineRead.args # "invalid"
            /\ LineRead.tool \notin DOMAIN ActionMap \cup {"save_page_to_file"}) =>
             Refused("Unknown tool")
        /\ (CallRead /\ LineRead.args = "invalid") => Refused("Invalid params")]_vars
  /\ [](\A i \in 1..Len(sockReqs) :
          \/ /\ sockReqs[i].tool \in DOMAIN ActionMap
             /\ sockReqs[i].action = ActionMap[sockReqs[i].tool]
          \/ /\ sockReqs[i].tool = "save_page_to_file"
             /\ sockReqs[i].action = "getPageForDownload")

\* on an open connection a call for get_browser_url has written its line and
\* a call for a name that is no tool was refused
C31_Witness ==
  /\ mcpConn = "open"
  /\ \E i \in 1..Len(sockReqs) : sockReqs[i].action = "getUrl"
  /\ \E j \in 1..Len(mcpOut) :
       /\ mcpOut[j].text = "Unknown tool"
       /\ mcpIn[mcpOut[j].id].tool = "no_such_tool"

\* ------------------------------------------------------------------------
\* handleClient with clients that send their lines without waiting for the
\* responses

\* the k-th request line of a client, and bytes that are no JSON document
SentLine(k) == [kind |-> "req", requestId |-> EmptyId, tag |-> k]
Garbage == [kind |-> "bad", requestId |-> EmptyId, tag |-> 0]

\* request lines sent and not yet read by a handler
QueuedRequests ==
  LET Count(c) == Cardinality({i \in 1..Len(connIn[c]) : connIn[c][i].kind = "req"})
      Sum[k \in 0..Cardinality(Conns)] == IF k = 0 THEN 0 ELSE Sum[k - 1] + Count(k)
  IN Sum[Cardinality(Conns)]

\* a client writes a line while lines it wrote before wait in the connection:
\* a request, or, after a request that still waits, bytes that do not decode
ClientPipeline(c, req, maxCalls) ==
  /\ connState[c] = "open"
  /\ ~connEof[c]
  /\ Len(connIn[c]) < MaxQueued
  /\ req => nextCall + QueuedRequests <= maxCalls
  /\ ~req => (connIn[c] # <<>> /\ connIn[c][Len(connIn[c])].kind = "req")
  /\ IF req
       THEN /\ connIn' = [connIn EXCEPT ![c] = Append(@, SentLine(connLog[c].sent + 1))]
            /\ connLog' = [connLog EXCEPT ![c].sent = @ + 1]
       ELSE /\ connIn' = [connIn EXCEPT ![c] = Append(@, Garbage)]
            /\ UNCHANGED connLog
  /\ UNCHANGED <<connState, connEof, connOut, bridgeVars, callVars, serverVars,
                 handlerVars, ioVars, mainVars, ptyVars, procVars, mcpVars, codecVars,
                 loopVars, saveVars, toolVars, afterOrderVars>>

\* handleClient reads a line; a line that decodes and the call made for it
\* are noted
LoggedLine(c) ==
  /\ HandleLine(c)
  /\ connLog' =
       IF OldestLine(connIn[c]).kind = "req"
       THEN [connLog EXCEPT ![c].read = Append(@, [tag |-> OldestLine(connIn[c]).tag,
                                                   call |-> cur'[c]])]
       ELSE connLog
  /\ UNCHANGED <<procVars, mcpVars, codecVars, loopVars, saveVars, toolVars, afterOrderVars>>

\* handleClient writes a response line, which is noted
LoggedRespond(c) ==
  /\ HandleRespond(c)
  /\ connLog' = [connLog EXCEPT ![c].wrote = Append(@, connOut'[c].call)]
  /\ UNCHANGED <<procVars, mcpVars, codecVars, loopVars, saveVars, toolVars, afterOrderVars>>

NextOrder ==
  \/ ServerListen(TRUE)
  \/ \E c \in Conns : ClientConnect(c)
  \/ \E c \in Conns : ServerAccept(c)
  \/ \E c \in Conns, req \in BOOLEAN : ClientPipeline(c, req, MaxSeqCalls)
  \/ \E c \in Conns : LoggedLine(c)
  \/ \E c \in Conns : RequestStep(c)
  \/ \E c \in Conns : LoggedRespond(c)
  \/ \E n \in Calls : BrowserRespond(callReqId[n], n, MaxSeqFrames)
  \/ MainRead
  \/ MainSend

SpecOrder == Init /\ [][NextOrder]_vars

\* the handler of c is inside handleRequest
InRequest(c) == hPc[c] \in {"register", "write_len", "write_body", "wait", "cleanup", "respond"}

ReadCalls(c) == [i \in 1..Len(connLog[c].read) |-> connLog[c].read[i].call]
ReadTags(c) == [i \in 1..Len(connLog[c].read) |-> connLog[c].read[i].tag]

\* C32: on every connection the request lines are handled in the order
\* sent, each once; the response lines written are those of the calls made
\* for them, in that order, at most the last one missing, and it is missing
\* exactly while the handler is inside handleRequest with that call; a
\* Request call begins only in the step that reads a request line; no call
\* serves two lines; and a handler that has nothing left to read has written
\* a response line for every request line sent.
C32_OneResponsePerLineInOrder ==
  /\ [](\A c \in Conns :
          /\ ReadTags(c) = [i \in 1..Len(connLog[c].read) |-> i]
          /\ Len(connLog[c].read) <= connLog[c].sent
          /\ Len(connLog[c].wrote) <= Len(connLog[c].read)
          /\ connLog[c].wrote = SubSeq(ReadCalls(c), 1, Len(connLog[c].wrote))
          /\ InRequest(c) <=> Len(connLog[c].read) = Len(connLog[c].wrote) + 1
          /\ InRequest(c) => cur[c] = ReadCalls(c)[Len(connLog[c].read)]
          /\ ~InRequest(c) => Len(connLog[c].read) = Len(connLog[c].wrote)
          /\ (hPc[c] = "read" /\ connIn[c] = <<>>) => Len(connLog[c].wrote) = connLog[c].sent
          /\ \A d \in Conns :
               \A i \in 1..Len(connLog[c].read), j \in 1..Len(connLog[d].read) :
                 ReadCalls(c)[i] = ReadCalls(d)[j] => (c = d /\ i = j))
  /\ [][\A c \in Conns :
          (hPc'[c] = "register" /\ hPc[c] # "register") =>
            /\ hPc[c] = "read"
            /\ Len(connLog'[c].read) = Len(connLog[c].read) + 1]_vars

\* a client sent two request lines before the first was answered, and both
\* were answered
C32_Witness ==
  \E c \in Conns :
    /\ connLog[c].sent = 2
    /\ Len(connLog[c].wrote) = 2
    /\ connLog[c].wrote[1] # connLog[c].wrote[2]


(***************************************************************************)
(* os.Stdout as the drain task and the Request calls share it:             *)
(* WriteNativeMessage makes two writes, binary.Write of the length and     *)
(* then w.Write of the body, and no lock is held around them               *)
(***************************************************************************)

MaxStreamCalls == 2
MaxStreamChunks == 1

RequestFrame(n) == <<"browser:request", n>>
OutputFrame(k) == <<"terminal:output", k>>
StdoutPart(pc) == IF pc = "write_len" THEN "len" ELSE "body"
StdoutWrite(frame, part) == [frame |-> frame, part |-> part]

\* Request, step 2, with each write recorded on the stream
StreamRequestWrite(c, ok) ==
  /\ WriteFrame(c, ok)
  /\ stdoutStream' = IF ok
                       THEN Append(stdoutStream,
                                   StdoutWrite(RequestFrame(cur[c]), StdoutPart(hPc[c])))
                       ELSE stdoutStream
  /\ UNCHANGED <<procVars, mcpVars, codecVars, loopVars, saveVars, toolVars, orderVars,
                 afterStreamVars>>

\* the drain task's WriteNativeMessage, first write: the length prefix
DrainWriteLen(ok) ==
  /\ ~panicked
  /\ drainPc = "write"
  /\ IF ok
       THEN /\ stdoutStream' = Append(stdoutStream, StdoutWrite(OutputFrame(output), "len"))
            /\ drainPc' = "write_body"
            /\ UNCHANGED output
       ELSE /\ output' = 0
            /\ drainPc' = "recv"
            /\ UNCHANGED stdoutStream
  /\ UNCHANGED <<ptyFields, sessionVars, outputCh, outputChOpen, chunksRead, stdoutTerm,
                 callerVars, relayVars, procVars, mcpVars, codecVars, loopVars, saveVars,
                 toolVars, orderVars, afterStreamVars>>

\* ... second write: the body; an error is logged and the loop goes on
DrainWriteBody(ok) ==
  /\ ~panicked
  /\ drainPc = "write_body"
  /\ IF ok
       THEN /\ stdoutStream' = Append(stdoutStream, StdoutWrite(OutputFrame(output), "body"))
            /\ stdoutTerm' = Append(stdoutTerm, output)
       ELSE UNCHANGED <<stdoutStream, stdoutTerm>>
  /\ output' = 0
  /\ drainPc' = "recv"
  /\ UNCHANGED <<ptyFields, sessionVars, outputCh, outputChOpen, chunksRead,
                 callerVars, relayVars, procVars, mcpVars, codecVars, loopVars, saveVars,
                 toolVars, orderVars, afterStreamVars>>

\* the relay with its PTY session running and socket clients calling Request
NextStream ==
  \/ ServerListen(TRUE)
  \/ \E c \in Conns : ClientConnect(c)
  \/ \E c \in Conns : ServerAccept(c)
  \/ \E c \in Conns : ClientSend(c, RequestLine(EmptyId), MaxStreamCalls)
  \/ \E c \in Conns : HandleClientLine(c)
  \/ \E c \in Conns : RequestRegister(c)
  \/ \E c \in Conns, ok \in BOOLEAN : StreamRequestWrite(c, ok)
  \/ \E c \in Conns : RequestTimeoutFires(c)
  \/ \E c \in Conns : RequestCleanup(c)
  \/ \E c \in Conns : HandleClientRespond(c)
  \/ \E found, launch, shell \in BOOLEAN : PtyStart(found, launch, shell, 1)
  \/ \E g \in Sess, f \in Sess \cup {0} : ReadOutput(g, f, MaxStreamChunks)
  \/ DrainRecv
  \/ \E ok \in BOOLEAN : DrainWriteLen(ok)
  \/ \E ok \in BOOLEAN : DrainWriteBody(ok)

SpecStream == Init /\ [][NextStream]_vars

\* C33: every frame on the relay's stdout is contiguous: once a frame's length
\* prefix is written, the next write on the stream is that frame's body, also
\* when the drain task and Request calls write at the same time
C33_FramesContiguous ==
  \A i \in 1..Len(stdoutStream), j \in 1..Len(stdoutStream) :
    ( /\ i < j
      /\ stdoutStream[i].part = "len"
      /\ stdoutStream[j].part = "body"
      /\ stdoutStream[i].frame = stdoutStream[j].frame ) => j = i + 1


\* C34: a browser:response is returned only by the Request call whose request
\* frame it answers, also when a later call was made with the requestId of a
\* call that has timed out
C34_OnlyOwnResponse ==
  \A n \in Calls : callResult[n].kind = "resp" => callResult[n].msg.answers = n


\* the connections whose handler is inside BrowserBridge.Request, from its
\* first statement to the end of its deferred delete
InRequestCall == {c \in Conns : hPc[c] \in {"register", "write_len", "write_body",
                                             "wait", "cleanup"}}

\* len(b.pending) under the read lock
GetPendingCount == Cardinality(DOMAIN pending)

\* C35: the pending table never leaks: it has at most as many entries as
\* there are Request calls in progress, and it is empty whenever no Request
\* call is in progress
C35_PendingNeverLeaks ==
  /\ GetPendingCount <= Cardinality(InRequestCall)
  /\ InRequestCall = {} => GetPendingCount = 0

\* two calls have been made, one has returned and its response line is about
\* to be written, and no call is in progress
C35_Witness ==
  /\ nextCall > 2
  /\ InRequestCall = {}
  /\ \E c \in Conns : hPc[c] = "respond" /\ callResult[cur[c]].kind = "err"
  /\ GetPendingCount = 0


\* a call of SocketServer.Stop has returned and none is running
SockStopReturned == socketStops > 0 /\ sockStopPc = "idle"

\* C36: once Stop has returned the server accepts no further connection (its
\* listener is not open and the accept loop is not inside an iteration) and
\* no accepted client connection is still open, however Stop interleaves
\* with Start and with a connection being accepted
C36_StoppedForGood ==
  SockStopReturned =>
    /\ listener # "open"
    /\ acceptPc # "track"
    /\ \A c \in Conns : connState[c] \notin {"accepted", "open"}


\* the chunk the drain task has received and not yet written
InHand == IF drainPc = "write" THEN <<output>> ELSE <<>>

\* the chunks on their way: written as frames, in the drain task's hand, queued
Pipeline == stdoutTerm \o InHand \o outputCh

Increasing(q) == \A i \in 1..(Len(q) - 1) : q[i] < q[i + 1]

MaxPairLines == 3

\* the line the relay writes for a request line: handleRequest always returns
\* a SocketResponse with the RequestId of the request
SocketResponse(req, answer) == [requestId |-> req.requestId, line |-> answer]

\* A faulty handler, against which the pairing is tested: it answers every
\* request line twice.
RespondTwice(q, resp) == Append(Append(q, resp), resp)

\* conn.Write(respBytes): one response line per request line
RespondOnce(q, resp) == Append(q, resp)

\* the relay's handleClient: the next request line of the facade is read and
\* handled (the browser answered, failed, or the Request timed out) and its
\* response line is written
RelayHandle(answer) ==
  /\ relayRead < Len(sockReqs)
  /\ relayRead' = relayRead + 1
  /\ sockLines' = RespondOnce(sockLines, SocketResponse(sockReqs[relayRead + 1], answer))
  /\ UNCHANGED <<mcpReads, relayVars, ptyVars, procVars, mcpVars, codecVars, loopVars, saveVars,
                 toolVars, orderVars, streamVars, afterPairVars>>

\* reader := bufio.NewReader(s.conn); reader.ReadBytes('\n'): the oldest line
\* on the connection is returned; what else had arrived may have been read
\* into the reader's buffer, and is lost with the reader when the call returns
PairRead(fileOk, buffered) ==
  /\ sockLines # <<>>
  /\ ReadResponse(Head(sockLines).line, fileOk)
  /\ sockLines' = IF buffered THEN <<>> ELSE Tail(sockLines)
  /\ mcpReads' = Append(mcpReads, [call |-> McpId, requestId |-> Head(sockLines).requestId])
  /\ UNCHANGED <<sockBuf, relayRead, codecVars, loopVars, saveVars, toolVars, orderVars,
                 streamVars, afterPairVars>>

\* tools/call after tools/call on one connection that stays up
NextPair ==
  \/ McpDial(TRUE)
  \/ \E line \in ToolLineSet : McpScan(line, MaxPairLines)
  \/ McpEof
  \/ \E ok \in BOOLEAN : McpWrite(ok)
  \/ \E answer \in RelayAnswers \ {"unparsable"} : RelayHandle(answer)
  \/ \E fileOk, buffered \in BOOLEAN : PairRead(fileOk, buffered)

SpecPair == Init /\ [][NextPair]_vars

\* C38: the response line a call reads is the one the relay wrote for the
\* request line that call wrote: its requestId is the call's; a line waits on
\* the connection only while the call it belongs to is reading, and alone
C38_ReadsOwnResponse ==
  /\ \A i \in 1..Len(mcpReads) : mcpReads[i].requestId = mcpReads[i].call
  /\ Len(sockLines) <= 1
  /\ sockLines # <<>> => (mcpPc = "read" /\ Head(sockLines).requestId = McpId)

\* two calls have read their responses, the first one a failure (an upstream
\* error or the relay's timeout), the second one a result
C38_Witness ==
  /\ Len(mcpReads) = 2
  /\ Len(mcpOut) = 2
  /\ mcpOut[1] = errorResponse(mcpReads[1].call, UpstreamError)
  /\ mcpOut[2].kind = "result"
  /\ mcpOut[2].id = mcpReads[2].call


(***************************************************************************)
(* The extension's background worker and its native-host port              *)
(* (background/index.ts).  The worker is single-threaded: every listener   *)
(* and timer callback runs to completion.                                  *)
(***************************************************************************)

MaxPorts == 5

NullPort == 0

\* connectToNativeHost(): nothing when port !== null; else connectNative
\* returns a new port, which is stored and is connected, or throws and port
\* stays null.  from is the value of port at the call.
connectToNativeHost(from, ok) ==
  IF from # NullPort
    THEN /\ port' = from
         /\ UNCHANGED <<livePorts, portsOpened>>
    ELSE /\ portsOpened < MaxPorts
         /\ IF ok
              THEN /\ portsOpened' = portsOpened + 1
                   /\ port' = portsOpened + 1
                   /\ livePorts' = livePorts \cup {portsOpened + 1}
              ELSE /\ port' = NullPort
                   /\ UNCHANGED <<livePorts, portsOpened>>

\* the top-level call when the worker's script is loaded
WorkerLoad(ok) ==
  /\ ~loaded
  /\ loaded' = TRUE
  /\ connectToNativeHost(port, ok)
  /\ UNCHANGED <<timers, relayVars, ptyVars, procVars, mcpVars, codecVars, loopVars, saveVars,
                 toolVars, orderVars, streamVars, pairVars>>

\* port.onDisconnect of port p (the host exited, or could not be started):
\* port = null; unless the host is not installed, a reconnect timer is set
PortDisconnect(p, notFound) ==
  /\ p \in livePorts
  /\ livePorts' = livePorts \ {p}
  /\ port' = NullPort
  /\ timers' = IF notFound THEN timers ELSE timers + 1
  /\ UNCHANGED <<portsOpened, loaded, relayVars, ptyVars, procVars, mcpVars, codecVars, loopVars,
                 saveVars, toolVars, orderVars, streamVars, pairVars>>

\* a timer set by setTimeout(connectToNativeHost, 2000) fires
TimerFires(ok) ==
  /\ timers > 0
  /\ timers' = timers - 1
  /\ connectToNativeHost(port, ok)
  /\ UNCHANGED <<loaded, relayVars, ptyVars, procVars, mcpVars, codecVars, loopVars, saveVars,
                 toolVars, orderVars, streamVars, pairVars>>

\* the message connection:status with action reconnect: port = null;
\* connectToNativeHost()
ManualReconnect(ok) ==
  /\ loaded
  /\ connectToNativeHost(NullPort, ok)
  /\ UNCHANGED <<timers, loaded, relayVars, ptyVars, procVars, mcpVars, codecVars, loopVars,
                 saveVars, toolVars, orderVars, streamVars, pairVars>>

NextPort ==
  \/ \E ok \in BOOLEAN : WorkerLoad(ok)
  \/ \E p \in 1..MaxPorts, notFound \in BOOLEAN : PortDisconnect(p, notFound)
  \/ \E ok \in BOOLEAN : TimerFires(ok)
  \/ \E ok \in BOOLEAN : ManualReconnect(ok)

SpecPort == Init /\ [][NextPort]_vars

\* the step is the disconnect event of port p
DisconnectOf(p) == p \in livePorts /\ livePorts' = livePorts \ {p}

\* C39: the worker holds at most one live native-host port: a port is opened
\* only when no port opened before is still connected, and the disconnect of
\* an old port does not clear the reference to a newer one
C39_OneLivePort ==
  /\ [](Cardinality(livePorts) <= 1)
  /\ [][portsOpened' > portsOpened => livePorts = {}]_vars
  /\ [][\A p \in 1..MaxPorts :
          (DisconnectOf(p) /\ port # NullPort /\ port # p) => port' = port]_vars


\* a frame that decodes and that the main loop cannot dispatch: an unknown
\* type, or a known type whose field is not of the kind the call needs
Undispatchable(msg) ==
  /\ msg.decodes
  /\ \/ msg.type \notin {"terminal:input", "terminal:resize", "browser:response"}
     \/ msg.type = "terminal:input" /\ msg.data # "string"
     \/ msg.type = "terminal:resize" /\ msg.geom # "numbers"
     \/ msg.type = "browser:response" /\ msg.requestId # "string"

\* the step in which the main loop reads such a frame
UndispatchableRead ==
  /\ inRead < Len(frameLog)
  /\ inRead' = inRead + 1
  /\ Undispatchable(frameLog[inRead + 1])

\* C40: reading a frame the main loop cannot dispatch makes no call, changes
\* neither the PTY session nor the pending table, and leaves the loop at its
\* read; a loop at its read with a frame waiting can always read it
C40_UndispatchableIgnored ==
  /\ [][UndispatchableRead =>
          /\ UNCHANGED <<performed, ptyVars, bridgeVars>>
          /\ loopPc' = "read"]_vars
  /\ []((loopPc = "read" /\ inRead < Len(frameLog)) => ENABLED LoopRead)

\* after a frame that could not be dispatched a later frame has been
\* dispatched
C40_Witness ==
  \E i \in 1..inRead, k \in 1..Len(performed) :
     /\ Undispatchable(frameLog[i])
     /\ performed[k].frame > i

=============================================================================
